---- MODULE Spec2Model ----
(***************************************************************************)
(* Interactive worker of resolve-ai-helper (src/core/cli.py,               *)
(* cmd_transcribe_ui with --interactive): a reader thread decodes stdin    *)
(* lines into commands_q, a 200 ms QTimer runs poll_commands on the GUI    *)
(* thread, and the handlers run the transcription job synchronously and    *)
(* print Result lines on stdout.                                           *)
(*                                                                         *)
(* The GUI thread is modelled by its call stack: every frame is either a   *)
(* Qt event loop (app.exec, a modal dialog's exec) or Python code that     *)
(* is suspended in a call (poll_commands, transcribe_video).               *)
(*                                                                         *)
(* The supervisor script (src/resolve_scripts/resolve-ai-helper.py) has    *)
(* its own specification, SupSpec, with the worker seen as a process that  *)
(* prints lines and ends; CodecSpec follows one message from the host's    *)
(* answers through json.dumps, the pipe and json.loads.                    *)
(*                                                                         *)
(* RunnerSpec follows one call of transcribe_video (src/core/transcribe.py)*)
(* made by transcribe_with_ui, callback by callback and stage by stage;    *)
(* StampSpec applies the time formatters of src/core/utils.py to times in  *)
(* whole milliseconds, with the float arithmetic done bit by bit; and      *)
(* WriteSpec runs write_srt over short lists of segments.                  *)
(***************************************************************************)
EXTENDS Integers, Sequences, FiniteSets, TLC

\* ------------------------------------------------------------------ bounds
\* Inputs of one run: lines the supervisor writes to the worker's stdin and
\* actions of the user in the main window, together.
MaxInputs == 2

\* Characters in a timeline name or file name.
MaxNameLen == 2

\* Lines of the worker's stdout the supervisor gets to read, and calls of
\* send_timeline_state, in one session.
MaxOut == 2
MaxPolls == 2
\* Segments the recognition yields at most (the segment loop reports progress
\* every tenth segment and clamps it from the hundredth on).
MaxSegs == 131
\* Times handed to the formatters: every whole millisecond up to MaxMs.
MaxMs == 1100
\* Segments handed to write_srt at most.
MaxCues == 3

\* --------------------------------------------------------------- constants
interactive == TRUE          \* args.interactive (the --interactive flag)

NoMsg == 0

\* The lines that can arrive on stdin.  shape is what json.loads makes of
\* the stripped line; event/cmd/input are the keys poll_commands reads.
Line(shape, event, cmd, input) ==
    [shape |-> shape, event |-> event, cmd |-> cmd, input |-> input]

Lines ==
    { Line("blank", "none", "none", "none"),            \* "   \n"
      Line("malformed", "none", "none", "none"),        \* not json
      Line("scalar", "none", "none", "none"),           \* 42, "x", [1], null
      Line("object", "timeline_state", "none", "none"),
      Line("object", "selection", "none", "none"),
      Line("object", "timeline_state", "shutdown", "none"),
      Line("object", "none", "none", "none"),           \* {} or unknown cmd
      Line("object", "none", "test_place", "none"),
      Line("object", "none", "transcribe", "none"),     \* no "input" key
      Line("object", "none", "transcribe", "nofile"),   \* file does not exist
      Line("object", "none", "transcribe", "badext"),   \* exists, e.g. a .txt
      Line("object", "none", "transcribe", "ok"),
      Line("object", "none", "transcribe_range", "ok"),
      Line("object", "none", "cancel", "none"),
      Line("object", "none", "shutdown", "none") }

\* Stages of transcribe_video after its input validation; each begins with a
\* progress callback.
Stages == <<"extract", "load", "recognize", "write", "complete">>
\* Stages whose work can raise.
FailingStages == {"extract", "load", "recognize", "write"}

VARIABLES
    nread,            \* lines read from stdin so far
    nclick,           \* user actions so far
    commands_q,       \* _queue.Queue(): decoded messages, FIFO
    stack,            \* call stack of the GUI thread, top last
    quit,             \* app.quit() was called: the event loops are exiting
    stdout,           \* Result lines printed so far
    dispatchLog,      \* the messages poll_commands has routed, in order
    jobLog,           \* ids of the messages transcribe_video was called for
    returned,         \* ids of the jobs transcribe_video returned a result for
    completed,        \* transcription_result["completed"]
    test_requested,   \* test_requested["value"]
    test_response,    \* test_response_json["value"] (NoMsg: None)
    cancel_requested, \* cancel_requested["value"]
    ctx,              \* what the main window displays (ids of last events)
    exitCode          \* -1 while the process runs

\* The supervisor script (src/resolve_scripts/resolve-ai-helper.py, main)
\* from the point where the worker is launched and read_stdout is started.
VARIABLES
    sup_pc,           \* where main is: "find", "objects", "spawn", then
                      \* "loop", "poll", "drain", then the finally block
                      \* "shutdown", "terminate", "wait"; "done"
    poll_count,       \* calls of send_timeline_state so far
    proc_stdin,       \* what the supervisor has written to the worker's stdin
    stdout_q,         \* queue.Queue(): stripped lines of the worker's stdout
    nlines,           \* lines read_stdout has read so far
    imports,          \* ids of the lines import_srt was called for, in order
    code,             \* the returncode proc.poll() has seen (-1: None)
    sup_exc,          \* the exception main ends with ("none": return 0)
    proc_state,       \* the worker process: "unspawned", "failed" (Popen
                      \* raised), "running" or "exited"
    returncode,       \* its exit status (-1 while it runs)
    terminated        \* proc.terminate() has signalled the worker

sup == <<sup_pc, poll_count, proc_stdin, stdout_q, nlines, imports, code,
         sup_exc, proc_state, returncode, terminated>>

\* One message on its way through the codec: built by send_timeline_state
\* from the host's answers (or given as a command), json.dumps + "\n" on the
\* supervisor's side, strip + json.loads in the worker's stdin_reader.
VARIABLES
    c_pc,             \* "off", "host", "msg", "nosend", "line", "decoded"
    c_host,           \* what the host accessors answer
    c_msg,            \* the message object
    c_line,           \* the characters written to the pipe
    c_out             \* what json.loads returned

codec == <<c_pc, c_host, c_msg, c_line, c_out>>

\* The supervisor's start (main up to Popen) and its return value.
VARIABLES
    exe_path,         \* find_executable's answer: "unset", "onedir", "exe", "None"
    spawns,           \* calls of subprocess.Popen so far
    sup_ret,          \* what main returned (-1: it has not returned)
    sup_report        \* the failure main printed at its start ("none": none)

launch == <<exe_path, spawns, sup_ret, sup_report>>

\* One call of transcribe_video (src/core/transcribe.py) from
\* transcribe_with_ui (src/core/cli.py), followed step by step.
VARIABLES
    r_pc,             \* "off", "run", "seg_cb", "load_except", "except",
                      \* "raised", "returned", "reported"
    r_step,           \* index into Steps while r_pc = "run"
    r_i,              \* segments taken from the generator so far
    r_nseg,           \* segments the recognition yields
    r_audio,          \* the extracted-audio temp file exists
    r_audio_path,     \* 'audio_path' in locals()
    r_srt,            \* the output file: "absent", "partial", "written"
    r_cancelled,      \* transcribe_with_ui's `cancelled`
    r_exc,            \* the exception in flight, then the one raised
    r_log,            \* callback invocations and stage work, in order
    r_shown,          \* what transcribe_with_ui showed at the end
    r_response        \* cmd_transcribe's answer

runner == <<r_pc, r_step, r_i, r_nseg, r_audio, r_audio_path, r_srt,
            r_cancelled, r_exc, r_log, r_shown, r_response>>

\* The SRT writer (write_srt) and the time formatters of src/core/utils.py,
\* each applied to inputs drawn at the start.
VARIABLES
    t_pc,             \* "off", "in", "out"
    t_ms,             \* the time to format, in whole milliseconds
    t_stamp,          \* format_srt_timestamp(t_ms / 1000)
    t_dur,            \* format_duration(t_ms / 1000)
    w_pc,             \* "off", "loop", "closed"
    w_segments,       \* the segments handed to write_srt
    w_i,              \* segments enumerated so far
    w_file            \* the cues written so far

fmt == <<t_pc, t_ms, t_stamp, t_dur, w_pc, w_segments, w_i, w_file>>

others == <<sup, codec, launch, runner, fmt>>

worker == <<nread, nclick, commands_q, stack, quit, stdout, dispatchLog, jobLog,
            returned, completed, test_requested, test_response,
            cancel_requested, ctx, exitCode>>

vars == <<worker, sup, codec, launch, runner, fmt>>

session == <<completed, test_requested, test_response, cancel_requested, ctx>>

\* ------------------------------------------------------------ call stack
\* k: "exec" app.exec(); "poll" inside poll_commands; "box" a QMessageBox of
\* on_transcribe_requested; "job" inside transcribe_video, about to run
\* Stages[stage]; "dlg" ResultDialog.exec() (ok: the success dialog).
Frame(k, msg, stage, ok, err) ==
    [k |-> k, msg |-> msg, stage |-> stage, ok |-> ok, err |-> err]

ExecFrame == Frame("exec", NoMsg, 0, TRUE, "none")
PollFrame == Frame("poll", NoMsg, 0, TRUE, "none")

Depth == Len(stack)
Top == stack[Depth]
Pop == SubSeq(stack, 1, Depth - 1)
Push(f) == Append(stack, f)
Replace(f) == Append(Pop, f)
Kinds == {stack[i].k : i \in 1..Depth}

\* Frames in which Qt processes events: event loops, and a job frame (its
\* progress callback calls QApplication.processEvents()).
LoopKinds == {"exec", "box", "dlg"}

Alive == exitCode = -1 /\ Depth > 0

\* Number of transcribe_video invocations that have not returned.
JobsInProgress == Cardinality({i \in 1..Depth : stack[i].k = "job"})

\* The message whose transcribe_video invocation is in progress (NoMsg when
\* none): the innermost job frame.
RECURSIVE InnermostJob(_)
InnermostJob(i) ==
    IF i = 0 THEN NoMsg
    ELSE IF stack[i].k = "job" THEN stack[i].msg
    ELSE InnermostJob(i - 1)

RunningJob == InnermostJob(Depth)

NextId == nread + nclick + 1

\* ----------------------------------------------------------- Result lines
\* What json_response hands to print.  srt is "none" when the line has no
\* srt_path key; origin is the message (or click) the line was printed for,
\* job the transcribe_video invocation it reports on (NoMsg: none).
Result(success, srt, error, origin, job) ==
    [success |-> success, srt |-> srt, error |-> error,
     origin |-> origin, job |-> job]

\* json.dumps raises TypeError on a value it cannot serialise: the data of a
\* TranscriptionResult.__dict__ holds srt_path as a pathlib.Path.
TypeError == [exc |-> "TypeError"]

json_response(success, srt, error, origin, job) ==
    IF srt = "Path" THEN TypeError
    ELSE Result(success, srt, error, origin, job)

\* cmd_generate_test_srt: writes the fixed 2-cue file, answers with its path
\* as str(srt_path).
cmd_generate_test_srt(origin) ==
    json_response(TRUE, "test_from_exe.srt", "none", origin, NoMsg)

\* TranscriptionResult.__dict__: the attributes as stored by __init__.
\* (variant: the handler passes result.to_dict(), whose srt_path is a str)
ResultDict_ToDict == [srt_path |-> "clip.srt"]

ResultDict == [srt_path |-> "Path"]

\* ------------------------------------------------------------------ JSON
\* A string is the sequence of its characters.  NL, TAB, CR, QUOTE, BSLASH
\* and EACUTE each stand for one character (newline, tab, carriage return,
\* the double quote, the backslash, U+00E9).
Chars == {"a", " ", "NL", "QUOTE", "BSLASH", "EACUTE"}

RECURSIVE StringsUpTo(_)
StringsUpTo(n) ==
    IF n = 0 THEN {<<>>}
    ELSE StringsUpTo(n - 1) \cup
         {Append(s, c) : s \in {t \in StringsUpTo(n - 1) : Len(t) = n - 1},
                         c \in Chars}

Names == StringsUpTo(MaxNameLen)

\* JSON values as Python holds them: None, str, float (in hundredths), dict
\* (its items in insertion order).
JNull == [t |-> "null"]
JStr(s) == [t |-> "str", s |-> s]
JNum(h) == [t |-> "num", h |-> h]
JObj(items) == [t |-> "obj", items |-> items]
Item(k, v) == [k |-> k, v |-> v]

Digit(d) == <<"0", "1", "2", "3", "4", "5", "6", "7", "8", "9">>[d + 1]
IsDigit(c) == c \in {Digit(d) : d \in 0..9}
DigitVal(c) == CHOOSE d \in 0..9 : Digit(d) = c

\* str(int) of a non-negative int.
RECURSIVE Digits(_)
Digits(n) ==
    IF n < 10 THEN <<Digit(n)>>
    ELSE Append(Digits(n \div 10), Digit(n % 10))

\* float.__repr__ of a non-negative float with at most two decimals (h is
\* the value in hundredths): 4.0, 4.8, 0.48.
float_repr(h) ==
    Digits(h \div 100) \o <<".">> \o
    (IF h % 10 = 0 THEN <<Digit((h % 100) \div 10)>>
     ELSE <<Digit((h % 100) \div 10), Digit(h % 10)>>)

\* json.encoder.py_encode_basestring_ascii (ensure_ascii=True is the default
\* of json.dumps): quotes, backslashes, control and non-ASCII characters are
\* escaped.
\* (variant: the characters are written as they are)
EscapeChar_Raw(c) == <<c>>

EscapeChar(c) ==
    CASE c = "QUOTE" -> <<"BSLASH", "QUOTE">>
      [] c = "BSLASH" -> <<"BSLASH", "BSLASH">>
      [] c = "NL" -> <<"BSLASH", "n">>
      [] c = "CR" -> <<"BSLASH", "r">>
      [] c = "TAB" -> <<"BSLASH", "t">>
      [] c = "EACUTE" -> <<"BSLASH", "u", "0", "0", "e", "9">>
      [] OTHER -> <<c>>

RECURSIVE EscapeAll(_)
EscapeAll(s) ==
    IF s = <<>> THEN <<>> ELSE EscapeChar(Head(s)) \o EscapeAll(Tail(s))

encode_basestring_ascii(s) == <<"QUOTE">> \o EscapeAll(s) \o <<"QUOTE">>

\* json.dumps with the default separators (', ', ': ').
RECURSIVE dumps(_)
RECURSIVE dumps_items(_)
dumps(v) ==
    CASE v.t = "null" -> <<"n", "u", "l", "l">>
      [] v.t = "str" -> encode_basestring_ascii(v.s)
      [] v.t = "num" -> float_repr(v.h)
      [] v.t = "obj" -> <<"{">> \o dumps_items(v.items) \o <<"}">>

dumps_items(items) ==
    IF items = <<>> THEN <<>>
    ELSE encode_basestring_ascii(items[1].k) \o <<":", " ">> \o dumps(items[1].v)
         \o (IF Len(items) > 1 THEN <<",", " ">> \o dumps_items(Tail(items))
             ELSE <<>>)

\* str.strip(): leading and trailing whitespace removed.
Whitespace == {" ", "NL", "TAB", "CR"}

RECURSIVE lstrip(_)
lstrip(s) ==
    IF s # <<>> /\ Head(s) \in Whitespace THEN lstrip(Tail(s)) ELSE s

RECURSIVE rstrip(_)
rstrip(s) ==
    IF s # <<>> /\ s[Len(s)] \in Whitespace
    THEN rstrip(SubSeq(s, 1, Len(s) - 1)) ELSE s

strip(s) == rstrip(lstrip(s))

\* json.loads: the scanner of json.decoder.  A scan gives the value and the
\* index behind it, or fails (JSONDecodeError).
JSONDecodeError == [ok |-> FALSE, v |-> JNull, i |-> 0]
Scanned(v, i) == [ok |-> TRUE, v |-> v, i |-> i]

RECURSIVE SkipWhitespace(_, _)
SkipWhitespace(s, i) ==
    IF i <= Len(s) /\ s[i] \in Whitespace THEN SkipWhitespace(s, i + 1) ELSE i

Unescape(c) ==
    CASE c = "QUOTE" -> "QUOTE"
      [] c = "BSLASH" -> "BSLASH"
      [] c = "n" -> "NL"
      [] c = "r" -> "CR"
      [] c = "t" -> "TAB"
      [] OTHER -> "invalid"

\* py_scanstring from index i, just behind the opening quote (strict mode:
\* a raw control character ends the scan with an error).
RECURSIVE scanstring(_, _, _)
scanstring(s, i, acc) ==
    IF i > Len(s) THEN JSONDecodeError
    ELSE IF s[i] = "QUOTE" THEN Scanned(JStr(acc), i + 1)
    ELSE IF s[i] \in {"NL", "CR", "TAB"} THEN JSONDecodeError
    ELSE IF s[i] # "BSLASH" THEN scanstring(s, i + 1, Append(acc, s[i]))
    ELSE IF i + 1 > Len(s) THEN JSONDecodeError
    ELSE IF s[i + 1] = "u"
    THEN IF i + 5 <= Len(s) /\ SubSeq(s, i + 2, i + 5) = <<"0", "0", "e", "9">>
         THEN scanstring(s, i + 6, Append(acc, "EACUTE"))
         ELSE JSONDecodeError
    ELSE IF Unescape(s[i + 1]) = "invalid" THEN JSONDecodeError
    ELSE scanstring(s, i + 2, Append(acc, Unescape(s[i + 1])))

RECURSIVE scan_int(_, _, _)
scan_int(s, i, n) ==
    IF i <= Len(s) /\ IsDigit(s[i])
    THEN scan_int(s, i + 1, 10 * n + DigitVal(s[i]))
    ELSE [n |-> n, i |-> i]

\* NUMBER_RE and float(): digits, then optionally a point and one or two
\* digits; the value in hundredths.
scan_number(s, i) ==
    LET ip == scan_int(s, i, 0)
        j == ip.i
    IN IF j <= Len(s) /\ s[j] = "."
       THEN IF j + 1 <= Len(s) /\ IsDigit(s[j + 1])
            THEN IF j + 2 <= Len(s) /\ IsDigit(s[j + 2])
                 THEN IF j + 3 <= Len(s) /\ IsDigit(s[j + 3])
                      THEN JSONDecodeError
                      ELSE Scanned(JNum(100 * ip.n + 10 * DigitVal(s[j + 1])
                                        + DigitVal(s[j + 2])), j + 3)
                 ELSE Scanned(JNum(100 * ip.n + 10 * DigitVal(s[j + 1])), j + 2)
            ELSE JSONDecodeError
       ELSE Scanned(JNum(100 * ip.n), j)

RECURSIVE scan_once(_, _)
RECURSIVE JSONObject(_, _, _)
scan_once(s, i) ==
    IF i > Len(s) THEN JSONDecodeError
    ELSE IF s[i] = "QUOTE" THEN scanstring(s, i + 1, <<>>)
    ELSE IF s[i] = "{"
    THEN LET j == SkipWhitespace(s, i + 1)
         IN IF j <= Len(s) /\ s[j] = "}" THEN Scanned(JObj(<<>>), j + 1)
            ELSE JSONObject(s, j, <<>>)
    ELSE IF i + 3 <= Len(s) /\ SubSeq(s, i, i + 3) = <<"n", "u", "l", "l">>
    THEN Scanned(JNull, i + 4)
    ELSE IF IsDigit(s[i]) THEN scan_number(s, i)
    ELSE JSONDecodeError

\* The items of an object from index i, where a key has to begin.
JSONObject(s, i, acc) ==
    IF i > Len(s) \/ s[i] # "QUOTE" THEN JSONDecodeError
    ELSE LET key == scanstring(s, i + 1, <<>>)
             c == SkipWhitespace(s, key.i)
         IN IF ~key.ok \/ c > Len(s) \/ s[c] # ":" THEN JSONDecodeError
            ELSE LET val == scan_once(s, SkipWhitespace(s, c + 1))
                     e == SkipWhitespace(s, val.i)
                     items == Append(acc, Item(key.v.s, val.v))
                 IN IF ~val.ok \/ e > Len(s) THEN JSONDecodeError
                    ELSE IF s[e] = "}" THEN Scanned(JObj(items), e + 1)
                    ELSE IF s[e] = ","
                    THEN JSONObject(s, SkipWhitespace(s, e + 1), items)
                    ELSE JSONDecodeError

\* json.loads(s): one value, with nothing but whitespace around it.
loads(s) ==
    LET r == scan_once(s, SkipWhitespace(s, 1))
    IN IF r.ok /\ SkipWhitespace(s, r.i) = Len(s) + 1 THEN r
       ELSE JSONDecodeError

\* The keys and fixed strings of the messages, as character sequences.
S_event == <<"e", "v", "e", "n", "t">>
S_timeline_state ==
    <<"t", "i", "m", "e", "l", "i", "n",
      "e", "_", "s", "t", "a", "t", "e">>
S_timeline == <<"t", "i", "m", "e", "l", "i", "n", "e">>
S_name == <<"n", "a", "m", "e">>
S_fps == <<"f", "p", "s">>
S_tc == <<"t", "c">>
S_in_tc == <<"i", "n", "_", "t", "c">>
S_out_tc == <<"o", "u", "t", "_", "t", "c">>
S_range_seconds ==
    <<"r", "a", "n", "g", "e", "_",
      "s", "e", "c", "o", "n", "d", "s">>
S_Timeline == <<"T", "i", "m", "e", "l", "i", "n", "e">>
S_cmd == <<"c", "m", "d">>
S_shutdown == <<"s", "h", "u", "t", "d", "o", "w", "n">>
S_test_place == <<"t", "e", "s", "t", "_", "p", "l", "a", "c", "e">>
S_cancel == <<"c", "a", "n", "c", "e", "l">>
S_transcribe == <<"t", "r", "a", "n", "s", "c", "r", "i", "b", "e">>
S_input == <<"i", "n", "p", "u", "t">>
S_model == <<"m", "o", "d", "e", "l">>
S_base == <<"b", "a", "s", "e">>
S_device == <<"d", "e", "v", "i", "c", "e">>
S_auto == <<"a", "u", "t", "o">>
S_language == <<"l", "a", "n", "g", "u", "a", "g", "e">>

\* ------------------------------------------------------ the host's answers
\* What the Resolve API answers during one send_timeline_state call: per
\* accessor a value, None, or an exception.
\*   tl    project.GetCurrentTimeline()
\*   fps   GetSetting("timelineFrameRate"): "25", "30" or raises
\*   name  GetName(): r \in {"ok", "none", "raise"} and the name s
\*   tc    GetCurrentTimecode(): a string, a frame number, or raises
\*   marks GetMarkInOut(): the kind of answer (see GetMarkInOut below)
\* GetMarkInOut(): a dict with the marks of the video and of the audio track
\* ("set"), of the audio track alone ("audio"), with the in mark alone
\* ("in_only"), with out before in ("reversed"), with a negative in mark
\* ("negative"), without marks ("unset"), None ("none"), or an exception.
MarkAnswers ==
    {"set", "audio", "in_only", "reversed", "negative", "unset", "none", "raise"}

Host(tl, fps, r, s, tc, marks) ==
    [tl |-> tl, fps |-> fps, name |-> [r |-> r, s |-> s], tc |-> tc,
     marks |-> marks]

HostStates ==
    {Host(tl, fps, nm[1], nm[2], tc, marks) :
        tl \in {"ok", "none", "raise"},
        fps \in {"25", "30", "raise"},
        nm \in ({"ok"} \X Names) \cup ({"none", "raise"} \X {<<>>}),
        tc \in {"str", "frames", "raise"},
        marks \in MarkAnswers}

HostAllOk == Host("ok", "25", "ok", <<"a">>, "str", "set")

\* The values behind the answers: the timecode string and frame number of
\* the playhead, and the marks (in 0, out 120).  A dict of marks holds under
\* 'in' and 'out' a one-element sequence, or <<>> where the key is omitted.
TcString == <<"0", "1", ":", "0", "0", ":", "0", "2", ":", "1", "0">>
PlayheadFrame == 90061
MarkIn == 0
MarkOut == 120

Marks(in, out) == [in |-> in, out |-> out]
NoMarks == Marks(<<>>, <<>>)

GetMarkInOut(kind) ==
    CASE kind = "set" ->
           [video |-> Marks(<<MarkIn>>, <<MarkOut>>),
            audio |-> Marks(<<MarkIn>>, <<MarkOut>>)]
      [] kind = "audio" ->
           [video |-> NoMarks, audio |-> Marks(<<MarkIn>>, <<MarkOut>>)]
      [] kind = "in_only" ->
           [video |-> Marks(<<MarkIn>>, <<>>), audio |-> Marks(<<MarkIn>>, <<>>)]
      [] kind = "reversed" ->
           [video |-> Marks(<<MarkOut>>, <<MarkIn>>),
            audio |-> Marks(<<MarkOut>>, <<MarkIn>>)]
      [] kind = "negative" ->
           [video |-> Marks(<<MarkIn - 1>>, <<MarkOut>>),
            audio |-> Marks(<<MarkIn - 1>>, <<MarkOut>>)]
      [] OTHER -> [video |-> NoMarks, audio |-> NoMarks]

\* in_f = video_marks.get('in') if video_marks else audio_marks.get('in'),
\* and the same for out_f: a dict with a key is truthy.
TrackMarks(marks) ==
    IF marks.video # NoMarks THEN marks.video ELSE marks.audio

\* if in_f is not None and out_f is not None and in_f >= 0 and out_f > in_f
\* (variant: without the two comparisons)
MarksUsable_Unordered(m) == m.in # <<>> /\ m.out # <<>>

MarksUsable(m) ==
    /\ m.in # <<>>
    /\ m.out # <<>>
    /\ m.in[1] >= 0
    /\ m.out[1] > m.in[1]

\* float(GetSetting(...)), in hundredths.
FpsValue(fps) == IF fps = "25" THEN 2500 ELSE 3000
DefaultFps == 2400

\* f"{n:02d}"
Pad2(n) == IF n < 10 THEN <<"0", Digit(n)>> ELSE Digits(n)

\* f"{fps:.2f}"
format_2f(fps) == Digits(fps \div 100) \o <<".">> \o Pad2(fps % 100)

\* frames_to_tc(frames, fps), fps in hundredths.
frames_to_tc(frames, fps) ==
    IF fps <= 0 THEN <<"0", "0", ":", "0", "0", ":", "0", "0", ":", "0", "0">>
    ELSE LET f == 100 * frames
             hours == f \div (3600 * fps)
             minutes == (f % (3600 * fps)) \div (60 * fps)
             seconds == (f % (60 * fps)) \div fps
             ff == (f % fps) \div 100
         IN Pad2(hours) \o <<":">> \o Pad2(minutes) \o <<":">>
            \o Pad2(seconds) \o <<":">> \o Pad2(ff)

\* send_timeline_state up to the write: the event it builds, or no event
\* when the current timeline cannot be had (`return`).
NoEvent == [sent |-> FALSE, evt |-> JNull]

send_timeline_state(h) ==
    IF h.tl # "ok" THEN NoEvent
    ELSE LET fps == IF h.fps = "raise" THEN DefaultFps ELSE FpsValue(h.fps)
             name == CASE h.name.r = "ok" -> JStr(h.name.s)
                       [] h.name.r = "none" -> JNull
                       [] h.name.r = "raise" -> JStr(S_Timeline)
             tc == CASE h.tc = "str" -> TcString
                     [] h.tc = "frames" -> frames_to_tc(PlayheadFrame, fps)
                     [] h.tc = "raise" -> frames_to_tc(0, 0)
             m == TrackMarks(GetMarkInOut(h.marks))
             marked == h.marks # "raise" /\ MarksUsable(m)
             in_tc == IF marked THEN JStr(frames_to_tc(m.in[1], fps)) ELSE JNull
             out_tc == IF marked THEN JStr(frames_to_tc(m.out[1], fps)) ELSE JNull
             range_seconds ==
                 IF marked THEN JNum(((m.out[1] - m.in[1]) * 10000) \div fps)
                 ELSE JNull
         IN [sent |-> TRUE,
             evt |-> JObj(<<
                 Item(S_event, JStr(S_timeline_state)),
                 Item(S_timeline, JObj(<<
                     Item(S_name, name),
                     Item(S_fps, JStr(format_2f(fps))),
                     Item(S_tc, JStr(tc)),
                     Item(S_in_tc, in_tc),
                     Item(S_out_tc, out_tc),
                     Item(S_range_seconds, range_seconds)>>))>>)]

\* Command objects a supervisor can send.
Command(c) == JObj(<<Item(S_cmd, JStr(c))>>)
TranscribeCommand(c, input) ==
    JObj(<<Item(S_cmd, JStr(c)), Item(S_input, JStr(input)),
           Item(S_model, JStr(S_base)), Item(S_device, JStr(S_auto)),
           Item(S_language, JNull)>>)

Commands ==
    {Command(c) : c \in {S_shutdown, S_test_place, S_cancel}}
    \cup {TranscribeCommand(S_transcribe, input) : input \in Names}

\* ------------------------------------------------- initial states
\* Lines the worker can print (what read_stdout strips and enqueues): a
\* blank line, text that is no JSON, a JSON value that is no object, and
\* Result objects.
OutLine(json, success, error, srt) ==
    [json |-> json, success |-> success, error |-> error, srt |-> srt]

OutLines ==
    { OutLine("blank", FALSE, "none", "none"),
      OutLine("text", FALSE, "none", "none"),
      OutLine("scalar", FALSE, "none", "none"),
      OutLine("object", TRUE, "none", "exists"),
      OutLine("object", TRUE, "none", "missing"),
      OutLine("object", FALSE, "other", "none"),
      OutLine("object", FALSE, "cancel", "none") }

SupInit ==
    /\ sup_pc = "find"
    /\ poll_count = 0
    /\ proc_stdin = <<>>
    /\ stdout_q = <<>>
    /\ nlines = 0
    /\ imports = <<>>
    /\ code = -1
    /\ sup_exc = "none"
    /\ proc_state = "unspawned"
    /\ returncode = -1
    /\ terminated = FALSE

CodecOff ==
    /\ c_pc = "off"
    /\ c_host = HostAllOk
    /\ c_msg = JNull
    /\ c_line = <<>>
    /\ c_out = JSONDecodeError

LaunchInit ==
    /\ exe_path = "unset"
    /\ spawns = 0
    /\ sup_ret = -1
    /\ sup_report = "none"

RunnerOff ==
    /\ r_pc = "off"
    /\ r_step = 1
    /\ r_i = 0
    /\ r_nseg = 0
    /\ r_audio = FALSE
    /\ r_audio_path = FALSE
    /\ r_srt = "absent"
    /\ r_cancelled = FALSE
    /\ r_exc = "none"
    /\ r_log = <<>>
    /\ r_shown = "none"
    /\ r_response = "none"

SrtOff ==
    /\ t_pc = "off"
    /\ t_ms = 0
    /\ t_stamp = <<>>
    /\ t_dur = <<>>
    /\ w_pc = "off"
    /\ w_segments = <<>>
    /\ w_i = 0
    /\ w_file = <<>>

\* What stands still in a specification of one component.
Idle == LaunchInit /\ RunnerOff /\ SrtOff

\* ----------------------------------------------------------------- Init
WorkerInit ==
    /\ nread = 0
    /\ nclick = 0
    /\ commands_q = <<>>
    /\ stack = <<ExecFrame>>
    /\ quit = FALSE
    /\ stdout = <<>>
    /\ dispatchLog = <<>>
    /\ jobLog = <<>>
    /\ returned = {}
    /\ completed = FALSE
    /\ test_requested = FALSE
    /\ test_response = NoMsg
    /\ cancel_requested = FALSE
    /\ ctx = [timeline |-> NoMsg, selection |-> NoMsg]
    /\ exitCode = -1

\* The worker session at its start; the supervisor and the codec are
\* specified separately (SupSpec, CodecSpec) and stand still here.
Init == WorkerInit /\ SupInit /\ CodecOff /\ Idle

\* ------------------------------------------------------- the stdin thread
\* One iteration of `for line in _sys.stdin`: strip, skip blank lines,
\* json.loads, put; a line json.loads rejects is dropped.  The thread is a
\* daemon: it runs until the process exits.
decode(line) ==
    IF line.shape = "blank" THEN "skip"
    ELSE IF line.shape = "malformed" THEN "error"
    ELSE "value"

Msg(id, line, during) ==
    [id |-> id, shape |-> line.shape, event |-> line.event, cmd |-> line.cmd,
     input |-> line.input, during |-> during]

stdin_reader ==
    /\ exitCode = -1
    /\ nread + nclick < MaxInputs
    /\ \E line \in Lines :
         /\ nread' = nread + 1
         /\ commands_q' = IF decode(line) = "value"
                          THEN Append(commands_q, Msg(NextId, line, RunningJob))
                          ELSE commands_q
    /\ UNCHANGED <<nclick, stack, quit, stdout, dispatchLog, jobLog, returned, completed,
                   test_requested, test_response, cancel_requested, ctx,
                   exitCode>>
    /\ UNCHANGED others

\* ------------------------------------------------------------- the timer
\* timer.timeout -> poll_commands.  Qt delivers a timer event only from an
\* event loop (or processEvents) and never re-enters a timer whose slot is
\* still running; a loop that has been told to quit delivers nothing more.
\* (variant: the slot can be entered again from a processEvents call made
\* while it runs)
TimerMayFire_Reentrant ==
    /\ Alive
    /\ ~quit
    /\ Top.k \in LoopKinds \cup {"job"}

\* (variant: the timer keeps firing in a loop that was told to quit)
TimerMayFire_AfterQuit ==
    /\ Alive
    /\ Top.k \in LoopKinds \cup {"job"}
    /\ "poll" \notin Kinds

TimerMayFire ==
    /\ Alive
    /\ ~quit
    /\ Top.k \in LoopKinds \cup {"job"}
    /\ "poll" \notin Kinds

Tick ==
    /\ TimerMayFire
    /\ stack' = Push(PollFrame)
    /\ UNCHANGED <<nread, nclick, commands_q, quit, stdout, dispatchLog, jobLog,
                   returned, completed, test_requested, test_response, cancel_requested,
                   ctx, exitCode>>
    /\ UNCHANGED others

InPoll == Alive /\ Top.k = "poll"

\* commands_q.get_nowait() raises Empty: poll_commands returns.
PollEmpty ==
    /\ InPoll
    /\ commands_q = <<>>
    /\ stack' = Pop
    /\ UNCHANGED <<nread, nclick, commands_q, quit, stdout, dispatchLog, jobLog,
                   returned, completed, test_requested, test_response, cancel_requested,
                   ctx, exitCode>>
    /\ UNCHANGED others

\* commands_q.get_nowait() on a non-empty queue: the oldest message, and
\* the queue it leaves.
\* (variant: the newest message first)
QueueGet_LIFO ==
    [msg |-> commands_q[Len(commands_q)],
     rest |-> SubSeq(commands_q, 1, Len(commands_q) - 1)]

QueueGet == [msg |-> Head(commands_q), rest |-> Tail(commands_q)]
get_nowait == QueueGet.msg
Dequeued == QueueGet.rest

\* cmd.get(...) on a value that is not a dict raises AttributeError, which
\* `except _queue.Empty` does not catch: the slot ends with the exception
\* (PySide prints it and the event loop goes on); the rest stays queued.
\* (variant: the uncaught exception ends the process)
PollNonObject_Fatal ==
    /\ Alive /\ Top.k = "poll"
    /\ commands_q # <<>>
    /\ Head(commands_q).shape # "object"
    /\ commands_q' = Tail(commands_q)
    /\ stack' = <<>>
    /\ exitCode' = 1
    /\ UNCHANGED <<nread, nclick, quit, stdout, dispatchLog, jobLog, returned,
                   completed, test_requested, test_response, cancel_requested,
                   ctx>>
    /\ UNCHANGED others

PollNonObject ==
    /\ InPoll
    /\ commands_q # <<>>
    /\ get_nowait.shape # "object"
    /\ commands_q' = Dequeued
    /\ stack' = Pop
    /\ UNCHANGED <<nread, nclick, quit, stdout, dispatchLog, jobLog, returned, completed,
                   test_requested, test_response, cancel_requested, ctx,
                   exitCode>>
    /\ UNCHANGED others

\* Which branch of poll_commands a dict takes: the event tests come first.
Route(m) ==
    IF m.event = "timeline_state" THEN "timeline_state"
    ELSE IF m.event = "selection" THEN "selection"
    ELSE m.cmd

Routed(r) ==
    /\ InPoll
    /\ commands_q # <<>>
    /\ get_nowait.shape = "object"
    /\ Route(get_nowait) = r
    /\ commands_q' = Dequeued
    /\ dispatchLog' = Append(dispatchLog, get_nowait)

\* bus.timeline_event.emit / bus.selection_event.emit: the main window shows
\* the payload; `continue`.
\* (variant: the event branch acknowledges the event on stdout)
PollEvent_Replies ==
    /\ \E r \in {"timeline_state", "selection"} :
         /\ Routed(r)
         /\ ctx' = IF r = "timeline_state"
                   THEN [ctx EXCEPT !.timeline = Head(commands_q).id]
                   ELSE [ctx EXCEPT !.selection = Head(commands_q).id]
         /\ stdout' = Append(stdout, Result(TRUE, "none", "none",
                                            Head(commands_q).id, NoMsg))
    /\ UNCHANGED <<nread, nclick, stack, quit, jobLog, returned, completed,
                   test_requested, test_response, cancel_requested, exitCode>>
    /\ UNCHANGED others

PollEvent ==
    /\ \E r \in {"timeline_state", "selection"} :
         /\ Routed(r)
         /\ ctx' = IF r = "timeline_state"
                   THEN [ctx EXCEPT !.timeline = get_nowait.id]
                   ELSE [ctx EXCEPT !.selection = get_nowait.id]
    /\ UNCHANGED <<nread, nclick, stack, quit, stdout, jobLog, returned, completed,
                   test_requested, test_response, cancel_requested, exitCode>>
    /\ UNCHANGED others

\* A dict whose "cmd" matches no branch: nothing happens.
PollOther ==
    /\ Routed("none")
    /\ UNCHANGED <<nread, nclick, stack, quit, stdout, jobLog, returned, completed,
                   test_requested, test_response, cancel_requested, ctx,
                   exitCode>>
    /\ UNCHANGED others

\* --------------------------------------------------------------- handlers
\* on_test_place in interactive mode: remember and print the response.
on_test_place(origin) ==
    /\ test_requested' = TRUE
    /\ test_response' = origin
    /\ stdout' = IF interactive
                 THEN Append(stdout, cmd_generate_test_srt(origin))
                 ELSE stdout

\* on_transcribe_requested up to the first point where it waits: a message
\* box for a missing input or file, else the progress window and the call of
\* transcribe_video, whose own validation raises ValueError for an
\* unsupported extension before the first progress callback (caught by the
\* handler's `except Exception`, which opens the error dialog).
on_transcribe_requested(input, origin) ==
    IF input \in {"none", "nofile"}
    THEN /\ stack' = Push(Frame("box", origin, 0, FALSE, "none"))
         /\ jobLog' = jobLog
    ELSE /\ jobLog' = Append(jobLog, origin)
         /\ stack' = IF input = "badext"
                     THEN Push(Frame("dlg", origin, 0, FALSE, "Invalid video file format"))
                     ELSE Push(Frame("job", origin, 1, TRUE, "none"))

PollTestPlace ==
    /\ Routed("test_place")
    /\ on_test_place(get_nowait.id)
    /\ UNCHANGED <<nread, nclick, stack, quit, jobLog, returned, completed,
                   cancel_requested, ctx, exitCode>>
    /\ UNCHANGED others

PollTranscribe ==
    /\ \E r \in {"transcribe", "transcribe_range"} : Routed(r)
    /\ on_transcribe_requested(get_nowait.input, get_nowait.id)
    /\ UNCHANGED <<nread, nclick, quit, stdout, returned, completed,
                   test_requested, test_response, cancel_requested, ctx,
                   exitCode>>
    /\ UNCHANGED others

\* elif ctype == 'cancel': print(json_response(False, error='cancel'))
PollCancel ==
    /\ Routed("cancel")
    /\ stdout' = Append(stdout, json_response(FALSE, "none", "cancel",
                                              get_nowait.id, get_nowait.during))
    /\ UNCHANGED <<nread, nclick, stack, quit, jobLog, returned, completed,
                   test_requested, test_response, cancel_requested, ctx,
                   exitCode>>
    /\ UNCHANGED others

\* on_window_closed, the slot of the main window's closeEvent.
\* (variant: the slot is not connected)
on_window_closed_Unconnected == cancel_requested' = cancel_requested

on_window_closed ==
    cancel_requested' = IF ~completed /\ ~test_requested
                        THEN TRUE ELSE cancel_requested

\* elif ctype == 'shutdown': app.quit(); return.  Qt 6 asks the windows to
\* close before it quits (closeEvent -> on_window_closed); Qt 5 does not.
\* (variant: app.quit() without the `return`: the loop keeps draining)
PollShutdown_NoReturn ==
    /\ Alive /\ Top.k = "poll"
    /\ commands_q # <<>>
    /\ Head(commands_q).shape = "object"
    /\ Route(Head(commands_q)) = "shutdown"
    /\ commands_q' = Tail(commands_q)
    /\ dispatchLog' = Append(dispatchLog, Head(commands_q))
    /\ quit' = TRUE
    /\ UNCHANGED <<nread, nclick, stack, stdout, jobLog, returned, completed,
                   test_requested, test_response, cancel_requested, ctx,
                   exitCode>>
    /\ UNCHANGED others

PollShutdown ==
    /\ Routed("shutdown")
    /\ quit' = TRUE
    /\ stack' = Pop
    /\ \/ on_window_closed
       \/ UNCHANGED cancel_requested
    /\ UNCHANGED <<nread, nclick, stdout, jobLog, returned, completed, test_requested,
                   test_response, ctx, exitCode>>
    /\ UNCHANGED others

\* ---------------------------------------------------------------- the job
InJob == Alive /\ Top.k = "job"

\* One stage of transcribe_video: progress_callback (update_progress,
\* processEvents), then the stage's work.  A stage that raises goes through
\* the function's except (cleanup, callback, raise RuntimeError) into the
\* handler's except, which opens the error dialog.  After the last stage
\* the handler builds ResultDialog(result.__dict__, success=True).
JobStage ==
    /\ InJob
    /\ Top.stage < Len(Stages)
    /\ \/ stack' = Replace([Top EXCEPT !.stage = @ + 1])
       \/ /\ Stages[Top.stage] \in FailingStages
          /\ stack' = Replace(Frame("dlg", Top.msg, 0, FALSE,
                                    "Transcription failed"))
    /\ UNCHANGED <<nread, nclick, commands_q, quit, stdout, dispatchLog, jobLog,
                   returned, completed, test_requested, test_response, cancel_requested,
                   ctx, exitCode>>
    /\ UNCHANGED others

\* transcribe_video returns its TranscriptionResult.  Building the success
\* dialog from result.__dict__ hands a Path to QLabel, which either raises
\* TypeError (into the handler's except) or shows the dialog.
JobReturns ==
    /\ InJob
    /\ Top.stage = Len(Stages)
    /\ returned' = returned \cup {Top.msg}
    /\ \/ stack' = Replace(Frame("dlg", Top.msg, 0, TRUE, "none"))
       \/ stack' = Replace(Frame("dlg", Top.msg, 0, FALSE, "TypeError"))
    /\ UNCHANGED <<nread, nclick, commands_q, quit, stdout, dispatchLog, jobLog,
                   completed, test_requested, test_response, cancel_requested,
                   ctx, exitCode>>
    /\ UNCHANGED others

\* The user dismisses the success dialog: in interactive mode the handler
\* prints json_response(True, data=result.__dict__) and marks the job
\* completed; a TypeError of json_response goes to the except clause.
SuccessDialogDone ==
    /\ Alive
    /\ Top.k = "dlg"
    /\ Top.ok
    /\ LET resp == json_response(TRUE, ResultDict.srt_path, "none", Top.msg, Top.msg)
       IN IF interactive /\ resp = TypeError
          THEN /\ stack' = Replace(Frame("dlg", Top.msg, 0, FALSE, "TypeError"))
               /\ UNCHANGED <<stdout, completed>>
          ELSE /\ stdout' = IF interactive THEN Append(stdout, resp) ELSE stdout
               /\ completed' = TRUE
               /\ stack' = Pop
    /\ UNCHANGED <<nread, nclick, commands_q, quit, dispatchLog, jobLog,
                   returned, test_requested, test_response, cancel_requested,
                   ctx, exitCode>>
    /\ UNCHANGED others

\* The user dismisses the error dialog: the except clause prints
\* json_response(False, error=str(e)) and the handler returns.
\* (variant: the except clause shows the dialog and prints nothing)
ErrorDialogDone_Silent ==
    /\ Alive
    /\ Top.k = "dlg"
    /\ ~Top.ok
    /\ stack' = SubSeq(stack, 1, Len(stack) - 1)
    /\ UNCHANGED <<nread, nclick, commands_q, quit, stdout, dispatchLog, jobLog,
                   returned, completed, test_requested, test_response,
                   cancel_requested, ctx, exitCode>>
    /\ UNCHANGED others

\* (variant: the handler ends with app.quit() as in the one-shot mode)
ErrorDialogDone_Quits ==
    /\ Alive
    /\ Top.k = "dlg"
    /\ ~Top.ok
    /\ stdout' = Append(stdout, json_response(FALSE, "none", Top.err,
                                              Top.msg, Top.msg))
    /\ stack' = SubSeq(stack, 1, Len(stack) - 1)
    /\ quit' = TRUE
    /\ UNCHANGED <<nread, nclick, commands_q, dispatchLog, jobLog,
                   returned, completed, test_requested, test_response,
                   cancel_requested, ctx, exitCode>>
    /\ UNCHANGED others

ErrorDialogDone ==
    /\ Alive
    /\ Top.k = "dlg"
    /\ ~Top.ok
    /\ stdout' = IF interactive
                 THEN Append(stdout, json_response(FALSE, "none", Top.err,
                                                   Top.msg, Top.msg))
                 ELSE stdout
    /\ stack' = Pop
    /\ UNCHANGED <<nread, nclick, commands_q, quit, dispatchLog, jobLog,
                   returned, completed, test_requested, test_response, cancel_requested,
                   ctx, exitCode>>
    /\ UNCHANGED others

\* The user dismisses the "No File" / "File Not Found" box: `return`.
BoxDone ==
    /\ Alive
    /\ Top.k = "box"
    /\ stack' = Pop
    /\ UNCHANGED <<nread, nclick, commands_q, quit, stdout, dispatchLog, jobLog,
                   returned, completed, test_requested, test_response, cancel_requested,
                   ctx, exitCode>>
    /\ UNCHANGED others

\* ------------------------------------------------------------- the user
\* The main window takes input only while no modal dialog is open and the
\* GUI thread is in app.exec().
MainWindowActive == Alive /\ ~quit /\ stack = <<ExecFrame>>

\* "Transcribe Timeline": TranscribeWindow.on_transcribe emits settings
\* without an input_file.
ClickTranscribe ==
    /\ MainWindowActive
    /\ nread + nclick < MaxInputs
    /\ nclick' = nclick + 1
    /\ on_transcribe_requested("none", NextId)
    /\ UNCHANGED <<nread, commands_q, quit, stdout, dispatchLog, returned,
                   completed, test_requested, test_response, cancel_requested,
                   ctx, exitCode>>
    /\ UNCHANGED others

\* "Test Subtitle": TranscribeWindow.on_test_place emits test_place_requested.
ClickTestPlace ==
    /\ MainWindowActive
    /\ nread + nclick < MaxInputs
    /\ nclick' = nclick + 1
    /\ on_test_place(NextId)
    /\ UNCHANGED <<nread, commands_q, stack, quit, dispatchLog, jobLog,
                   returned, completed, cancel_requested, ctx, exitCode>>
    /\ UNCHANGED others

\* The user closes the main window: closeEvent emits window_closing, and the
\* application quits with its last window.
CloseWindow ==
    /\ MainWindowActive
    /\ nread + nclick < MaxInputs
    /\ nclick' = nclick + 1
    /\ on_window_closed
    /\ quit' = TRUE
    /\ UNCHANGED <<nread, commands_q, stack, stdout, dispatchLog, jobLog,
                   returned, completed, test_requested, test_response, ctx, exitCode>>
    /\ UNCHANGED others

\* ------------------------------------------------------------------ exit
\* app.exec() returns; cmd_transcribe_ui returns its final response and main
\* prints it and exits 0.  With a completed job the final json_response call
\* raises TypeError (unknown keyword `message`), which main reports on
\* stderr and turns into exit code 1.
FinalResponse ==
    IF test_requested /\ test_response # NoMsg
    THEN cmd_generate_test_srt(test_response)
    ELSE IF cancel_requested
    THEN json_response(FALSE, "none", "cancel", NoMsg, NoMsg)
    ELSE json_response(FALSE, "none", "Transcription cancelled by user", NoMsg, NoMsg)

AppExit ==
    /\ Alive
    /\ quit
    /\ stack = <<ExecFrame>>
    /\ stack' = <<>>
    /\ IF completed
       THEN exitCode' = 1 /\ stdout' = stdout
       ELSE exitCode' = 0 /\ stdout' = Append(stdout, FinalResponse)
    /\ UNCHANGED <<nread, nclick, commands_q, quit, dispatchLog, jobLog,
                   returned, completed, test_requested, test_response, cancel_requested,
                   ctx>>
    /\ UNCHANGED others

\* ------------------------------------------------------------------ spec
Next ==
    \/ stdin_reader
    \/ Tick
    \/ PollEmpty
    \/ PollNonObject
    \/ PollEvent
    \/ PollOther
    \/ PollTestPlace
    \/ PollTranscribe
    \/ PollCancel
    \/ PollShutdown
    \/ JobStage
    \/ JobReturns
    \/ SuccessDialogDone
    \/ ErrorDialogDone
    \/ BoxDone
    \/ ClickTranscribe
    \/ ClickTestPlace
    \/ CloseWindow
    \/ AppExit

Spec == Init /\ [][Next]_vars

\* The event loops leave on their own once app.quit() was called, and the
\* interpreter runs the code after app.exec() to the end.
FairSpec ==
    /\ Spec
    /\ WF_vars(AppExit)
    /\ WF_vars(quit /\ BoxDone)

\* The GUI thread keeps running: timer events are delivered, Python code
\* runs on, the calls of transcribe_video return and the user answers the
\* modal dialogs.
GuiStep ==
    \/ Tick
    \/ PollEmpty
    \/ PollNonObject
    \/ PollEvent
    \/ PollOther
    \/ PollTestPlace
    \/ PollTranscribe
    \/ PollCancel
    \/ PollShutdown
    \/ JobStage
    \/ JobReturns
    \/ SuccessDialogDone
    \/ ErrorDialogDone
    \/ BoxDone
    \/ AppExit

LiveSpec == Spec /\ WF_vars(GuiStep)

\* ------------------------------------------------------------ supervisor
\* read_stdout (reader thread): one line of the worker's output is read,
\* stripped and put on stdout_q.  id numbers the lines in read order.
read_stdout ==
    /\ sup_pc # "done"
    /\ proc_state \in {"running", "exited"}
    /\ nlines < MaxOut
    /\ nlines' = nlines + 1
    /\ \E l \in OutLines :
         stdout_q' = Append(stdout_q, [id |-> nlines + 1, line |-> l])
    /\ UNCHANGED <<sup_pc, poll_count, proc_stdin, imports, code, sup_exc,
                   proc_state, returncode, terminated>>
    /\ UNCHANGED <<worker, codec, launch, runner, fmt>>

\* The worker process ends: by itself with exit code 0 or 1, or, once
\* terminate() has signalled it, by the signal (returncode -15).
ExitCodes == IF terminated THEN {0, 1, -15} ELSE {0, 1}

WorkerExits ==
    /\ proc_state = "running"
    /\ proc_state' = "exited"
    /\ \E c \in ExitCodes : returncode' = c
    /\ UNCHANGED <<sup_pc, poll_count, proc_stdin, stdout_q, nlines, imports,
                   code, sup_exc, terminated>>
    /\ UNCHANGED <<worker, codec, launch, runner, fmt>>

\* proc.stdin.write(line); proc.stdin.flush(): the line reaches the pipe, or
\* the call raises because the worker has exited.  The result is the record
\* of the writes and the exception raised.
PipeBroken == proc_state = "exited"

pipe_write(line) ==
    IF PipeBroken
    THEN [stdin |-> Append(proc_stdin, [line |-> line, ok |-> FALSE]),
          exc |-> "BrokenPipeError"]
    ELSE [stdin |-> Append(proc_stdin, [line |-> line, ok |-> TRUE]),
          exc |-> "none"]

\* The write of send_timeline_state, inside `try: ... except Exception: pass`.
\* (variant: the write is not guarded)
write_event_Unguarded(line) == pipe_write(line)

write_event(line) == [pipe_write(line) EXCEPT !.exc = "none"]

\* Whether an event is written depends on the timeline accessor alone; the
\* other answers shape the payload.
HostAnswers == {[HostAllOk EXCEPT !.tl = tl] : tl \in {"ok", "none", "raise"}}

\* find_executable(script_dir): the one-directory build is preferred to the
\* single file; None when neither exists.
find_executable(files) ==
    IF files.onedir THEN "onedir"
    ELSE IF files.exe THEN "exe"
    ELSE "None"

\* What main does when its start fails: print the failure and `return 1`.
\* (variant: the failure is printed and main goes on to its polling loop)
OnLaunchFailure_Continue == [pc |-> "loop", ret |-> -1]

OnLaunchFailure == [pc |-> "done", ret |-> 1]

\* exe_path = find_executable(script_dir); if not exe_path: print; return 1
FindExecutable ==
    /\ sup_pc = "find"
    /\ \E files \in [onedir : BOOLEAN, exe : BOOLEAN] :
         /\ exe_path' = find_executable(files)
         /\ IF exe_path' = "None"
            THEN /\ sup_report' = "not found"
                 /\ sup_pc' = OnLaunchFailure.pc
                 /\ sup_ret' = OnLaunchFailure.ret
            ELSE /\ sup_pc' = "objects"
                 /\ UNCHANGED <<sup_report, sup_ret>>
    /\ UNCHANGED <<poll_count, proc_stdin, stdout_q, nlines, imports, code,
                   sup_exc, proc_state, returncode, terminated, spawns>>
    /\ UNCHANGED <<worker, codec, runner, fmt>>

\* _, project, timeline = get_resolve_objects(): raises when the host, the
\* project or the timeline cannot be had; main prints and returns 1.
GetResolveObjects ==
    /\ sup_pc = "objects"
    /\ \/ /\ sup_pc' = "spawn"
          /\ UNCHANGED <<sup_report, sup_ret>>
       \/ /\ sup_report' = "host"
          /\ sup_pc' = OnLaunchFailure.pc
          /\ sup_ret' = OnLaunchFailure.ret
    /\ UNCHANGED <<poll_count, proc_stdin, stdout_q, nlines, imports, code,
                   sup_exc, proc_state, returncode, terminated, exe_path,
                   spawns>>
    /\ UNCHANGED <<worker, codec, runner, fmt>>

\* proc = subprocess.Popen([...]) inside try/except Exception: the worker
\* runs, or the call raises and main prints and returns 1.
Spawn ==
    /\ sup_pc = "spawn"
    /\ spawns' = spawns + 1
    /\ \/ /\ proc_state' = "running"
          /\ sup_pc' = "loop"
          /\ UNCHANGED <<sup_report, sup_ret>>
       \/ /\ proc_state' = "failed"
          /\ sup_report' = "start failed"
          /\ sup_pc' = OnLaunchFailure.pc
          /\ sup_ret' = OnLaunchFailure.ret
    /\ UNCHANGED <<poll_count, proc_stdin, stdout_q, nlines, imports, code,
                   sup_exc, returncode, terminated, exe_path>>
    /\ UNCHANGED <<worker, codec, runner, fmt>>

\* Top of `while True` with now - last_sent >= 0.5 (always so in the first
\* round, last_sent being 0.0): send_timeline_state().
LoopSend ==
    /\ sup_pc = "loop"
    /\ poll_count < MaxPolls
    /\ poll_count' = poll_count + 1
    /\ \E h \in HostAnswers :
         LET w == IF send_timeline_state(h).sent
                  THEN write_event("timeline_state")
                  ELSE [stdin |-> proc_stdin, exc |-> "none"]
         IN /\ proc_stdin' = w.stdin
            /\ sup_exc' = w.exc
            /\ sup_pc' = IF w.exc = "none" THEN "poll" ELSE "shutdown"
    /\ UNCHANGED <<stdout_q, nlines, imports, code, proc_state, returncode,
                   terminated>>
    /\ UNCHANGED <<worker, codec, launch, runner, fmt>>

\* Top of `while True` less than 0.5 s after the last send.
LoopSkip ==
    /\ sup_pc = "loop"
    /\ poll_count > 0
    /\ sup_pc' = "poll"
    /\ UNCHANGED <<poll_count, proc_stdin, stdout_q, nlines, imports, code,
                   sup_exc, proc_state, returncode, terminated>>
    /\ UNCHANGED <<worker, codec, launch, runner, fmt>>

\* code = proc.poll(); a worker that has ended breaks the loop.
\* (variant: the exit code is noted and the round goes on to the queue)
Poll_NoBreak ==
    /\ sup_pc = "poll"
    /\ code' = IF proc_state = "exited" THEN returncode ELSE code
    /\ sup_pc' = "drain"
    /\ UNCHANGED <<poll_count, proc_stdin, stdout_q, nlines, imports, sup_exc,
                   proc_state, returncode, terminated>>
    /\ UNCHANGED <<worker, codec, launch, runner, fmt>>

Poll ==
    /\ sup_pc = "poll"
    /\ IF proc_state = "exited"
       THEN code' = returncode /\ sup_pc' = "shutdown"
       ELSE code' = code /\ sup_pc' = "drain"
    /\ UNCHANGED <<poll_count, proc_stdin, stdout_q, nlines, imports, sup_exc,
                   proc_state, returncode, terminated>>
    /\ UNCHANGED <<worker, codec, launch, runner, fmt>>

\* stdout_q.get_nowait() raises queue.Empty: time.sleep(0.05), next round.
DrainEmpty ==
    /\ sup_pc = "drain"
    /\ stdout_q = <<>>
    /\ sup_pc' = "loop"
    /\ UNCHANGED <<poll_count, proc_stdin, stdout_q, nlines, imports, code,
                   sup_exc, proc_state, returncode, terminated>>
    /\ UNCHANGED <<worker, codec, launch, runner, fmt>>

\* srt_path = payload.get("srt_path"); if srt_path: ... if p.exists():
\* (variant: without the p.exists() test)
ShouldImport_Unchecked(l) == l.srt # "none"

ShouldImport(l) == l.srt = "exists"

\* What the body of the inner loop does with one dequeued line.
OnLine(l) ==
    CASE l.json \in {"blank", "text"} -> "continue"
      [] l.json = "scalar" -> "AttributeError"
      [] ~l.success /\ l.error = "cancel" -> "StopIteration"
      [] ShouldImport(l) -> "import_srt"
      [] OTHER -> "continue"

\* One round of the inner `while True`: a line is dequeued and handled.
\* import_srt returns True or False, or a call of the host API raises; an
\* exception other than queue.Empty and StopIteration leaves the loop
\* through the finally block.
DrainLine ==
    /\ sup_pc = "drain"
    /\ stdout_q # <<>>
    /\ stdout_q' = Tail(stdout_q)
    /\ LET e == Head(stdout_q)
           o == OnLine(e.line)
       IN CASE o = "import_srt" ->
                 /\ imports' = Append(imports, e.id)
                 /\ \E r \in {"True", "False", "raise"} :
                      /\ sup_exc' = IF r = "raise" THEN "HostError" ELSE "none"
                      /\ sup_pc' = IF r = "raise" THEN "shutdown" ELSE "drain"
            [] o = "StopIteration" ->
                 /\ sup_pc' = "shutdown"
                 /\ UNCHANGED <<imports, sup_exc>>
            [] o = "AttributeError" ->
                 /\ sup_pc' = "shutdown"
                 /\ sup_exc' = "AttributeError"
                 /\ UNCHANGED imports
            [] OTHER ->
                 UNCHANGED <<sup_pc, imports, sup_exc>>
    /\ UNCHANGED <<poll_count, proc_stdin, nlines, code, proc_state,
                   returncode, terminated>>
    /\ UNCHANGED <<worker, codec, launch, runner, fmt>>

\* finally: the shutdown line is written (an exception is swallowed).
FinShutdown ==
    /\ sup_pc = "shutdown"
    /\ proc_stdin' = pipe_write("shutdown").stdin
    /\ sup_pc' = "terminate"
    /\ UNCHANGED <<poll_count, stdout_q, nlines, imports, code, sup_exc,
                   proc_state, returncode, terminated>>
    /\ UNCHANGED <<worker, codec, launch, runner, fmt>>

\* proc.terminate(): a running worker is signalled.
FinTerminate ==
    /\ sup_pc = "terminate"
    /\ terminated' = (terminated \/ proc_state = "running")
    /\ sup_pc' = "wait"
    /\ UNCHANGED <<poll_count, proc_stdin, stdout_q, nlines, imports, code,
                   sup_exc, proc_state, returncode>>
    /\ UNCHANGED <<worker, codec, launch, runner, fmt>>

\* proc.wait(timeout=5) returns: the worker has ended.  main returns 0, or
\* the exception that left the loop goes on.
WaitReturns ==
    /\ sup_pc = "wait"
    /\ proc_state = "exited"
    /\ sup_pc' = "done"
    /\ UNCHANGED <<poll_count, proc_stdin, stdout_q, nlines, imports, code,
                   sup_exc, proc_state, returncode, terminated>>
    /\ sup_ret' = IF sup_exc = "none" THEN 0 ELSE -1
    /\ UNCHANGED <<exe_path, spawns, sup_report>>
    /\ UNCHANGED <<worker, codec, runner, fmt>>

\* proc.wait(timeout=5) raises TimeoutExpired, which is swallowed: the
\* worker is still running after 5 s.
WaitTimesOut ==
    /\ sup_pc = "wait"
    /\ proc_state = "running"
    /\ sup_pc' = "done"
    /\ UNCHANGED <<poll_count, proc_stdin, stdout_q, nlines, imports, code,
                   sup_exc, proc_state, returncode, terminated>>
    /\ sup_ret' = IF sup_exc = "none" THEN 0 ELSE -1
    /\ UNCHANGED <<exe_path, spawns, sup_report>>
    /\ UNCHANGED <<worker, codec, runner, fmt>>

\* The steps of main's own thread.
SupStep ==
    \/ FindExecutable
    \/ GetResolveObjects
    \/ Spawn
    \/ LoopSend
    \/ LoopSkip
    \/ Poll
    \/ DrainEmpty
    \/ DrainLine
    \/ FinShutdown
    \/ FinTerminate
    \/ WaitReturns
    \/ WaitTimesOut

SupNext ==
    \/ read_stdout
    \/ WorkerExits
    \/ FindExecutable
    \/ GetResolveObjects
    \/ Spawn
    \/ LoopSend
    \/ LoopSkip
    \/ Poll
    \/ DrainEmpty
    \/ DrainLine
    \/ FinShutdown
    \/ FinTerminate
    \/ WaitReturns
    \/ WaitTimesOut

SupSpec == Init /\ [][SupNext]_vars

\* main's thread runs on: no call in its loop blocks for good.
SupLiveSpec == SupSpec /\ WF_vars(SupStep)

\* ------------------------------------------------------------- the codec
CodecInit ==
    /\ \/ c_pc = "host" /\ c_host \in HostStates /\ c_msg = JNull
       \/ c_pc = "msg" /\ c_host = HostAllOk /\ c_msg \in Commands
    /\ c_line = <<>>
    /\ c_out = JSONDecodeError

\* send_timeline_state builds its event from the host's answers.
Snapshot ==
    /\ c_pc = "host"
    /\ LET r == send_timeline_state(c_host)
       IN /\ c_msg' = r.evt
          /\ c_pc' = IF r.sent THEN "msg" ELSE "nosend"
    /\ UNCHANGED <<c_host, c_line, c_out>>
    /\ UNCHANGED <<worker, sup, launch, runner, fmt>>

\* proc.stdin.write(json.dumps(evt) + "\n")
Encode ==
    /\ c_pc = "msg"
    /\ c_line' = dumps(c_msg) \o <<"NL">>
    /\ c_pc' = "line"
    /\ UNCHANGED <<c_host, c_msg, c_out>>
    /\ UNCHANGED <<worker, sup, launch, runner, fmt>>

\* stdin_reader: line = line.strip(); msg = json.loads(line)
Decode ==
    /\ c_pc = "line"
    /\ c_out' = loads(strip(c_line))
    /\ c_pc' = "decoded"
    /\ UNCHANGED <<c_host, c_msg, c_line>>
    /\ UNCHANGED <<worker, sup, launch, runner, fmt>>

CodecNext ==
    \/ Snapshot
    \/ Encode
    \/ Decode

CodecStart == WorkerInit /\ SupInit /\ CodecInit /\ Idle

CodecSpec == CodecStart /\ [][CodecNext]_vars

\* ---------------------------------------------------------- the formatters
\* Python floats are IEEE-754 doubles: 53 significant bits, results rounded
\* to nearest, ties to even.
MantissaBits == 53

\* A non-negative double below 2^31 is held as its integer part and the
\* bits of its fraction, most significant first.
Float(int, frac) == [int |-> int, frac |-> frac]

RECURSIVE BitLen(_)
BitLen(k) == IF k = 0 THEN 0 ELSE 1 + BitLen(k \div 2)

RECURSIVE LeadingZeros(_)
LeadingZeros(bits) ==
    IF bits = <<>> \/ Head(bits) = 1 THEN 0 ELSE 1 + LeadingZeros(Tail(bits))

AllOnes(bits) == \A i \in 1..Len(bits) : bits[i] = 1
AnyOne(bits) == \E i \in 1..Len(bits) : bits[i] = 1

\* The first n bits of the binary expansion of r / 1000 (0 <= r < 1000), and
\* the remainder left behind them.
RECURSIVE DivStep(_, _)
DivStep(d, n) ==
    IF Len(d.bits) = n THEN d
    ELSE DivStep([bits |-> Append(d.bits, (2 * d.rem) \div 1000),
                  rem |-> (2 * d.rem) % 1000], n)

DivBits(r, n) == DivStep([bits |-> <<>>, rem |-> r], n)

\* bits + 1 in the last place, with the carry out of the first.
RECURSIVE Increment(_)
Increment(bits) ==
    IF bits = <<>> THEN [bits |-> <<>>, carry |-> 1]
    ELSE LET front == SubSeq(bits, 1, Len(bits) - 1)
         IN IF bits[Len(bits)] = 0
            THEN [bits |-> Append(front, 1), carry |-> 0]
            ELSE LET r == Increment(front)
                 IN [bits |-> Append(r.bits, 0), carry |-> r.carry]

\* The places of the fraction a double with that integer part and those
\* exact fraction bits keeps.
Kept(int, bits) ==
    IF int > 0 THEN MantissaBits - BitLen(int)
    ELSE MantissaBits + LeadingZeros(bits)

\* The double nearest to t / 1000 for a whole number t of milliseconds:
\* what a time of t ms is as a float of seconds.
seconds_of_ms(t) ==
    LET k == t \div 1000
        r == t % 1000
        lead == IF k > 0 THEN 0 ELSE LeadingZeros(DivBits(r, 10).bits)
        n == IF k > 0 THEN MantissaBits - BitLen(k) ELSE MantissaBits + lead
        d == DivBits(r, n)
        up == \/ 2 * d.rem > 1000
              \/ 2 * d.rem = 1000 /\ d.bits[n] = 1
        inc == Increment(d.bits)
    IN IF r = 0 THEN Float(k, <<>>)
       ELSE IF up THEN Float(k + inc.carry, inc.bits)
       ELSE Float(k, d.bits)

\* x * c for a small integer c, exactly: the product of the fraction bits,
\* from the last place with the carry.
RECURSIVE MulStep(_, _, _)
MulStep(bits, c, x) ==
    IF Len(x.frac) = Len(bits) THEN x
    ELSE LET d == bits[Len(bits) - Len(x.frac)] * c + x.int
         IN MulStep(bits, c, Float(d \div 2, <<d % 2>> \o x.frac))

MulBits(bits, c) == MulStep(bits, c, Float(0, <<>>))

\* int(x) of the double nearest to the exact value x: the integer part,
\* one more when rounding to MantissaBits bits carries into it.
int_of_rounded(x) ==
    LET keep == Kept(x.int, x.frac)
        n == Len(x.frac)
    IN IF n <= keep THEN x.int
       ELSE LET guard == x.frac[keep + 1]
                sticky == AnyOne(SubSeq(x.frac, keep + 2, n))
                lsb == IF keep > 0 THEN x.frac[keep] ELSE x.int % 2
                up == guard = 1 /\ (sticky \/ lsb = 1)
            IN IF up /\ AllOnes(SubSeq(x.frac, 1, keep)) THEN x.int + 1
               ELSE x.int

\* int((seconds % 1) * 1000): the remainder is exact, the product rounded.
\* (variant: the milliseconds taken from the time in whole milliseconds)
milliseconds_Exact(t) == t % 1000

milliseconds(t) ==
    LET seconds == seconds_of_ms(t)
    IN int_of_rounded(MulBits(seconds.frac, 1000))

\* f"{n:03d}"
Pad3(n) == IF n < 100 THEN <<"0">> \o Pad2(n) ELSE Digits(n)

\* format_duration(seconds) for seconds = t / 1000: floor division and
\* remainder of a double by 3600 and 60 are exact on its integer part.
format_duration(t) ==
    LET whole == seconds_of_ms(t).int
        hours == whole \div 3600
        minutes == (whole % 3600) \div 60
        secs == whole % 60
    IN Pad2(hours) \o <<":">> \o Pad2(minutes) \o <<":">> \o Pad2(secs)

\* format_srt_timestamp(seconds) for seconds = t / 1000.
format_srt_timestamp(t) ==
    LET whole == seconds_of_ms(t).int
        hours == whole \div 3600
        minutes == (whole % 3600) \div 60
        secs == whole % 60
    IN Pad2(hours) \o <<":">> \o Pad2(minutes) \o <<":">> \o Pad2(secs)
       \o <<",">> \o Pad3(milliseconds(t))

\* The times formatted: every whole millisecond up to MaxMs, and the times
\* of src/tests/test_basic.py (90.5 s and 3661.5 s).
TestTimes == {90500, 3661500}
Times == 0..MaxMs \cup TestTimes

StampInit ==
    /\ t_pc = "in"
    /\ t_ms \in Times
    /\ t_stamp = <<>>
    /\ t_dur = <<>>
    /\ w_pc = "off"
    /\ w_segments = <<>>
    /\ w_i = 0
    /\ w_file = <<>>

\* Both formatters are applied to the time.
FormatTime ==
    /\ t_pc = "in"
    /\ t_stamp' = format_srt_timestamp(t_ms)
    /\ t_dur' = format_duration(t_ms)
    /\ t_pc' = "out"
    /\ UNCHANGED <<t_ms, w_pc, w_segments, w_i, w_file>>
    /\ UNCHANGED <<worker, sup, codec, launch, runner>>

StampNext == FormatTime

StampStart ==
    WorkerInit /\ SupInit /\ CodecOff /\ LaunchInit /\ RunnerOff /\ StampInit

StampSpec == StampStart /\ [][StampNext]_vars

\* write_srt(segments, output_path): the segments handed over are dicts with
\* text (empty, blank, or words), start and end (here in whole milliseconds).
Segment(text, start, end) == [text |-> text, start |-> start, end |-> end]

Segments ==
    {Segment(text, span[1], span[2]) :
        text \in {<<>>, <<" ">>, <<"a">>},
        span \in {<<0, 1500>>, <<1500, 3001>>}}

RECURSIVE SeqsUpTo(_, _)
SeqsUpTo(S, n) ==
    IF n = 0 THEN {<<>>}
    ELSE SeqsUpTo(S, n - 1) \cup
         {Append(q, x) : q \in {u \in SeqsUpTo(S, n - 1) : Len(u) = n - 1},
                         x \in S}

WriteInit ==
    /\ t_pc = "off"
    /\ t_ms = 0
    /\ t_stamp = <<>>
    /\ t_dur = <<>>
    /\ w_pc = "loop"
    /\ w_segments \in SeqsUpTo(Segments, MaxCues)
    /\ w_i = 0
    /\ w_file = <<>>

\* One round of `for i, seg in enumerate(segments, start=1)` whose text is
\* empty after strip(): `continue`.
SkipSegment ==
    /\ w_pc = "loop"
    /\ w_i < Len(w_segments)
    /\ strip(w_segments[w_i + 1].text) = <<>>
    /\ w_i' = w_i + 1
    /\ UNCHANGED <<t_pc, t_ms, t_stamp, t_dur, w_pc, w_segments, w_file>>
    /\ UNCHANGED <<worker, sup, codec, launch, runner>>

\* One round that writes a cue: f"{i}\n", the two timestamps, the text and
\* a blank line.
WriteCue ==
    /\ w_pc = "loop"
    /\ w_i < Len(w_segments)
    /\ strip(w_segments[w_i + 1].text) # <<>>
    /\ w_i' = w_i + 1
    /\ LET seg == w_segments[w_i + 1]
       IN w_file' = Append(w_file,
                           [index |-> w_i + 1,
                            start |-> format_srt_timestamp(seg.start),
                            end |-> format_srt_timestamp(seg.end),
                            text |-> strip(seg.text),
                            segment |-> w_i + 1])
    /\ UNCHANGED <<t_pc, t_ms, t_stamp, t_dur, w_pc, w_segments>>
    /\ UNCHANGED <<worker, sup, codec, launch, runner>>

\* The loop is over and the `with` block closes the file.
CloseFile ==
    /\ w_pc = "loop"
    /\ w_i = Len(w_segments)
    /\ w_pc' = "closed"
    /\ UNCHANGED <<t_pc, t_ms, t_stamp, t_dur, w_segments, w_i, w_file>>
    /\ UNCHANGED <<worker, sup, codec, launch, runner>>

WriteNext ==
    \/ SkipSegment
    \/ WriteCue
    \/ CloseFile

WriteStart ==
    WorkerInit /\ SupInit /\ CodecOff /\ LaunchInit /\ RunnerOff /\ WriteInit

WriteSpec == WriteStart /\ [][WriteNext]_vars

\* ---------------------------------------------------------- the job runner
\* progress_callback(msg, None)
NoProgress == -1

\* transcribe_video's try block as the sequence of its progress callbacks
\* (with the fraction in thousandths) and of its stages' work; `try` names
\* the innermost try block around the step (ModelManager.load_model wraps
\* the construction of the model and its last callback in its own).  The
\* callbacks of load_model go through model_progress, which passes None.
Cb(at, p, try) == [k |-> "cb", at |-> at, p |-> p, try |-> try]
Work(at, try) == [k |-> "work", at |-> at, p |-> NoProgress, try |-> try]

Steps ==
    << Cb("extract", 0, "transcribe_video"),
       Work("extract", "transcribe_video"),
       Cb("load", 100, "transcribe_video"),
       Cb("load_model", NoProgress, "transcribe_video"),
       Cb("load_model", NoProgress, "transcribe_video"),
       Work("load", "load_model"),
       Cb("loaded", NoProgress, "load_model"),
       Cb("recognize", 200, "transcribe_video"),
       Work("recognize", "transcribe_video"),
       Cb("segments", 300, "transcribe_video"),
       [k |-> "loop", at |-> "segment", p |-> NoProgress,
        try |-> "transcribe_video"],
       Cb("write", 900, "transcribe_video"),
       Work("write", "transcribe_video"),
       Work("cleanup", "transcribe_video"),
       Cb("complete", 1000, "transcribe_video"),
       [k |-> "return", at |-> "return", p |-> NoProgress,
        try |-> "transcribe_video"] >>

Min(a, b) == IF a < b THEN a ELSE b

\* 0.3 + (0.5 * min(i / 100, 1.0)), in thousandths, for the i the loop
\* reports (i % 10 == 0).
\* (variant: without the min)
SegmentProgress_Unclamped(i) == 300 + (500 * (i * 10)) \div 1000

SegmentProgress(i) == 300 + (500 * Min(i * 10, 1000)) \div 1000

\* transcribe_with_ui's progress_callback: raises InterruptedError when
\* `cancelled` is set; else update_progress (which can raise) and
\* processEvents, during which the user can press Cancel.
progress_callback ==
    IF r_cancelled THEN {"InterruptedError"}
    ELSE {"ok", "cancel", "CallbackError"}

Returns(o) == o \in {"ok", "cancel"}

LogEntry(k, at, p, audio) ==
    [k |-> k, at |-> at, p |-> p, cancelled |-> r_cancelled, audio |-> audio,
     srt |-> r_srt]

\* The except clause an exception raised at a step goes to.
Handler(step) ==
    IF Steps[step].try = "load_model" THEN "load_except" ELSE "except"

\* cleanup_temp_files(audio_path): `if path and path.exists(): path.unlink()`.
cleanup_temp_files(exists) == FALSE

RunnerInit ==
    /\ r_pc = "run"
    /\ r_step = 1
    /\ r_i = 0
    /\ r_nseg = 0
    /\ r_audio = FALSE
    /\ r_audio_path = FALSE
    /\ r_srt = "absent"
    /\ r_cancelled \in BOOLEAN
    /\ r_exc = "none"
    /\ r_log = <<>>
    /\ r_shown = "none"
    /\ r_response = "none"

\* `if progress_callback: progress_callback(msg, p)` at a checkpoint of the
\* straight-line code.
RunnerCallback ==
    /\ r_pc = "run"
    /\ Steps[r_step].k = "cb"
    /\ r_log' = Append(r_log, LogEntry("cb", Steps[r_step].at, Steps[r_step].p,
                                       r_audio))
    /\ \E o \in progress_callback :
         /\ r_cancelled' = (r_cancelled \/ o = "cancel")
         /\ IF Returns(o)
            THEN /\ r_step' = r_step + 1
                 /\ UNCHANGED <<r_pc, r_exc>>
            ELSE /\ r_exc' = o
                 /\ r_pc' = Handler(r_step)
                 /\ UNCHANGED r_step
    /\ UNCHANGED <<r_i, r_nseg, r_audio, r_audio_path, r_srt, r_shown,
                   r_response>>
    /\ UNCHANGED <<worker, sup, codec, launch, fmt>>

\* The work of one stage: extract_audio (ffmpeg writes the temp file, and
\* can leave one behind when it fails), WhisperModel(...), model.transcribe,
\* write_srt, cleanup_temp_files.  audio_path is assigned before
\* extract_audio is called.
RunnerWork ==
    /\ r_pc = "run"
    /\ Steps[r_step].k = "work"
    /\ LET at == Steps[r_step].at
       IN /\ r_log' = Append(r_log, LogEntry("work", at, NoProgress, r_audio))
          /\ r_audio_path' = (r_audio_path \/ at = "extract")
          /\ \/ /\ r_step' = r_step + 1
                /\ r_audio' = CASE at = "extract" -> TRUE
                                [] at = "cleanup" -> cleanup_temp_files(r_audio)
                                [] OTHER -> r_audio
                /\ r_srt' = IF at = "write" THEN "written" ELSE r_srt
                /\ IF at = "recognize"
                   THEN r_nseg' \in 0..MaxSegs
                   ELSE r_nseg' = r_nseg
                /\ UNCHANGED <<r_pc, r_exc>>
             \/ /\ at \in FailingStages
                /\ r_exc' = "StageError"
                /\ r_pc' = Handler(r_step)
                /\ r_audio' \in IF at = "extract" THEN BOOLEAN ELSE {r_audio}
                /\ r_srt' \in IF at = "write" THEN {"absent", "partial"}
                              ELSE {r_srt}
                /\ UNCHANGED <<r_step, r_nseg>>
    /\ UNCHANGED <<r_i, r_cancelled, r_shown, r_response>>
    /\ UNCHANGED <<worker, sup, codec, launch, fmt>>

\* `for i, segment in enumerate(segments)`: the generator recognizes the
\* next segment (and can raise), the segment is appended, and every tenth
\* one is followed by a progress callback.
RunnerLoop ==
    /\ r_pc = "run"
    /\ Steps[r_step].k = "loop"
    /\ IF r_i = r_nseg
       THEN /\ r_step' = r_step + 1
            /\ UNCHANGED <<r_pc, r_i, r_exc, r_log>>
       ELSE /\ r_log' = Append(r_log, LogEntry("work", "segment", NoProgress,
                                               r_audio))
            /\ \/ /\ r_i' = r_i + 1
                  /\ r_pc' = IF r_i % 10 = 0 THEN "seg_cb" ELSE "run"
                  /\ UNCHANGED r_exc
               \/ /\ r_exc' = "StageError"
                  /\ r_pc' = Handler(r_step)
                  /\ UNCHANGED r_i
            /\ UNCHANGED r_step
    /\ UNCHANGED <<r_nseg, r_audio, r_audio_path, r_srt, r_cancelled, r_shown,
                   r_response>>
    /\ UNCHANGED <<worker, sup, codec, launch, fmt>>

\* if progress_callback and i % 10 == 0: progress_callback(..., 0.3 + ...)
RunnerSegmentCallback ==
    /\ r_pc = "seg_cb"
    /\ r_log' = Append(r_log, LogEntry("cb", "segment",
                                       SegmentProgress(r_i - 1), r_audio))
    /\ \E o \in progress_callback :
         /\ r_cancelled' = (r_cancelled \/ o = "cancel")
         /\ IF Returns(o)
            THEN /\ r_pc' = "run"
                 /\ UNCHANGED r_exc
            ELSE /\ r_exc' = o
                 /\ r_pc' = Handler(r_step)
    /\ UNCHANGED <<r_step, r_i, r_nseg, r_audio, r_audio_path, r_srt, r_shown,
                   r_response>>
    /\ UNCHANGED <<worker, sup, codec, launch, fmt>>

\* load_model's `except Exception as e`: progress_callback(f"x {error_msg}"),
\* raise RuntimeError(error_msg); an exception of the callback goes on in
\* its place.
RunnerLoadExcept ==
    /\ r_pc = "load_except"
    /\ r_log' = Append(r_log, LogEntry("cb", "load_except", NoProgress, r_audio))
    /\ \E o \in progress_callback :
         /\ r_cancelled' = (r_cancelled \/ o = "cancel")
         /\ r_exc' = IF Returns(o) THEN "RuntimeError" ELSE o
    /\ r_pc' = "except"
    /\ UNCHANGED <<r_step, r_i, r_nseg, r_audio, r_audio_path, r_srt, r_shown,
                   r_response>>
    /\ UNCHANGED <<worker, sup, codec, launch, fmt>>

\* transcribe_video's `except Exception as e`, first half:
\* if 'audio_path' in locals(): cleanup_temp_files(audio_path)
\* (variant: the clause does not clean up)
ExceptCleanup_Skipped == r_audio

ExceptCleanup ==
    IF r_audio_path THEN cleanup_temp_files(r_audio) ELSE r_audio

\* ... second half: `if progress_callback: progress_callback(msg, None)`.
\* (variant: the clause does not call the callback)
ExceptCallback_Absent == {"ok"}

ExceptCallback == progress_callback

\* The whole clause: cleanup, callback, raise RuntimeError(error_msg) from e;
\* an exception of the callback goes on in its place.
RunnerExcept ==
    /\ r_pc = "except"
    /\ r_audio' = ExceptCleanup
    /\ r_log' = Append(r_log, LogEntry("cb", "except", NoProgress, r_audio'))
    /\ \E o \in ExceptCallback :
         /\ r_cancelled' = (r_cancelled \/ o = "cancel")
         /\ r_exc' = IF Returns(o) THEN "RuntimeError" ELSE o
    /\ r_pc' = "raised"
    /\ UNCHANGED <<r_step, r_i, r_nseg, r_audio_path, r_srt, r_shown,
                   r_response>>
    /\ UNCHANGED <<worker, sup, codec, launch, fmt>>

\* return TranscriptionResult(...)
RunnerReturn ==
    /\ r_pc = "run"
    /\ Steps[r_step].k = "return"
    /\ r_pc' = "returned"
    /\ UNCHANGED <<r_step, r_i, r_nseg, r_audio, r_audio_path, r_srt,
                   r_cancelled, r_exc, r_log, r_shown, r_response>>
    /\ UNCHANGED <<worker, sup, codec, launch, fmt>>

\* transcribe_with_ui after the call: mark_complete and the result dialog;
\* `except InterruptedError`: mark_error("Transcription cancelled by user"),
\* return None; `except Exception`: mark_error and the error dialog, and the
\* function returns result_container['result'], which is None.
\* cmd_transcribe answers with the result, or "Transcription cancelled"
\* when it got None.
RunnerReported ==
    /\ r_pc \in {"returned", "raised"}
    /\ r_shown' = CASE r_pc = "returned" -> "complete"
                    [] r_exc = "InterruptedError" -> "cancelled"
                    [] OTHER -> "error"
    /\ r_response' = IF r_pc = "returned" THEN "success"
                     ELSE "Transcription cancelled"
    /\ r_pc' = "reported"
    /\ UNCHANGED <<r_step, r_i, r_nseg, r_audio, r_audio_path, r_srt,
                   r_cancelled, r_exc, r_log>>
    /\ UNCHANGED <<worker, sup, codec, launch, fmt>>

RunnerNext ==
    \/ RunnerCallback
    \/ RunnerWork
    \/ RunnerLoop
    \/ RunnerSegmentCallback
    \/ RunnerLoadExcept
    \/ RunnerExcept
    \/ RunnerReturn
    \/ RunnerReported

RunnerStart ==
    WorkerInit /\ SupInit /\ CodecOff /\ LaunchInit /\ SrtOff /\ RunnerInit

RunnerSpec == RunnerStart /\ [][RunnerNext]_vars

\* ------------------------------------------------------------ properties
ResultsFor(id) == {i \in 1..Len(stdout) : stdout[i].origin = id}
ResultsOfJob(id) == {i \in 1..Len(stdout) : stdout[i].job = id}
InHandler(id) == \E i \in 1..Depth : stack[i].msg = id
Queued == {commands_q[i] : i \in 1..Len(commands_q)}
Dispatched == {dispatchLog[i] : i \in 1..Len(dispatchLog)}
StartsJob(m) ==
    m.shape = "object" /\ Route(m) \in {"transcribe", "transcribe_range"}

\* C1: at every point of every execution at most one invocation of
\* transcribe_video is in progress.
C1_AtMostOneJob == JobsInProgress <= 1

\* A job is in progress while another job-starting command is queued.
C1_Witness ==
    /\ JobsInProgress = 1
    /\ \E m \in Queued : StartsJob(m) /\ m.input = "ok"

\* C2: every command for which transcribe_video was called runs once, and
\* exactly one Result line is printed for it, at the moment its handler
\* returns to the dispatch loop (none while the handler runs).
C2_OneRunOneResult ==
    \A i \in 1..Len(jobLog) :
        /\ \A j \in 1..Len(jobLog) : jobLog[j] = jobLog[i] => j = i
        /\ Cardinality(ResultsFor(jobLog[i])) =
               IF InHandler(jobLog[i]) THEN 0 ELSE 1

\* A job ran through all its stages, its handler returned and its Result
\* line is on stdout.
C2_Witness ==
    \E id \in returned : ~InHandler(id) /\ Cardinality(ResultsFor(id)) = 1

\* C3 (as claimed): every failed transcribe / transcribe_range command has a
\* Result line with success=false and an error string once its handler has
\* returned.
C3_EveryFailureReported ==
    \A m \in Dispatched :
        (StartsJob(m) /\ m.input \in {"none", "nofile", "badext"}
            /\ ~InHandler(m.id))
        => \E i \in ResultsFor(m.id) :
               ~stdout[i].success /\ stdout[i].error # "none"

\* C4 (as claimed): the Result line printed for a job whose transcribe_video
\* call returned has success=true and carries the artifact path.
C4_SuccessReported ==
    \A i \in 1..Len(stdout) :
        (stdout[i].origin = stdout[i].job /\ stdout[i].job \in returned)
        => stdout[i].success /\ stdout[i].srt # "none"

\* C5 (as claimed): a job during which a cancel command arrived does not run
\* to a successful return, and no job has two Result lines (the line the
\* cancel produces counts for the job it was sent to).
C5_CancelAbortsJob ==
    /\ \A m \in Queued \cup Dispatched :
           (m.shape = "object" /\ Route(m) = "cancel") => m.during \notin returned
    /\ \A id \in 1..MaxInputs : Cardinality(ResultsOfJob(id)) <= 1

\* C6 (as claimed): the step that dispatches a cancel command writes no
\* Result line.
C6_CancelWritesNothing ==
    [][(/\ commands_q # <<>>
        /\ Head(commands_q).shape = "object"
        /\ Route(Head(commands_q)) = "cancel"
        /\ Len(dispatchLog') > Len(dispatchLog))
       => stdout' = stdout]_vars

\* C7: a line the reader rejects leaves queue, session and output as they
\* were; a queued value that is not an object is removed without output or
\* session change, the messages behind it stay queued in order, and the
\* worker is still running with its timer able to fire.
C7_BadLinesDiscarded ==
    [][/\ (nread' # nread /\ commands_q' = commands_q)
          => UNCHANGED <<stdout, session, stack, quit, dispatchLog, exitCode>>
       /\ (/\ commands_q # <<>>
           /\ Head(commands_q).shape # "object"
           /\ nread' = nread
           /\ commands_q' # commands_q)
          => /\ commands_q' = Tail(commands_q)
             /\ UNCHANGED <<stdout, session, quit, dispatchLog, jobLog, exitCode>>
             /\ TimerMayFire']_vars

\* The first line was rejected or was no object, the second was test_place:
\* exactly one Result, for the second line.
C7_Witness ==
    /\ nread = 2 /\ nclick = 0 /\ commands_q = <<>>
    /\ Len(dispatchLog) = 1
    /\ dispatchLog[1].id = 2 /\ Route(dispatchLog[1]) = "test_place"
    /\ Len(stdout) = 1 /\ stdout[1].origin = 2 /\ stdout[1].success

\* C8 (as claimed): a test_place command or click has exactly one Result line
\* over the life of the process, its exit included: never two.
C8_OneResultPerTestPlace ==
    \A id \in 1..MaxInputs :
        (\E i \in ResultsFor(id) : stdout[i].srt = "test_from_exe.srt")
        => Cardinality(ResultsFor(id)) = 1

\* C9: the messages are routed in the order their lines were read.
C9_DispatchInReadOrder ==
    \A i, j \in 1..Len(dispatchLog) :
        i < j => dispatchLog[i].id < dispatchLog[j].id

\* Two messages were routed, the second one read while the first one's job
\* was running.
C9_Witness ==
    /\ Len(dispatchLog) = 2
    /\ dispatchLog[2].during = dispatchLog[1].id

ShutdownObserved == \E m \in Dispatched : Route(m) = "shutdown"

\* C10: once a shutdown command is routed no further message is routed, no
\* later output is for a message still queued, and the process exits.
C10_ShutdownTerminal ==
    /\ [][ShutdownObserved =>
            /\ dispatchLog' = dispatchLog
            /\ stdout' # stdout =>
                 /\ exitCode' # -1
                 /\ \A m \in Queued : stdout'[Len(stdout')].origin # m.id]_vars
    /\ ShutdownObserved ~> (exitCode # -1)

\* The process has exited after a shutdown with a message still queued.
C10_Witness ==
    /\ ShutdownObserved
    /\ exitCode = 0
    /\ \E m \in Queued : m.shape = "object"

IsEvent(m) == m.shape = "object" /\ Route(m) \in {"timeline_state", "selection"}
IsCmd(m, c) == m.shape = "object" /\ Route(m) = c
ShutdownsRouted ==
    Cardinality({i \in 1..Len(dispatchLog) : IsCmd(dispatchLog[i], "shutdown")})

\* C11: a second shutdown command is never routed; from the first one on the
\* session does not change, and the process exits at most once, with code 0
\* and the final response the session calls for, whatever is still queued.
C11_ShutdownIdempotent ==
    [][/\ ShutdownsRouted' <= 1
       /\ exitCode # -1 => UNCHANGED <<exitCode, stdout>>
       /\ ShutdownObserved =>
            /\ UNCHANGED session
            /\ exitCode' # exitCode =>
                 /\ exitCode' = 0
                 /\ stdout' = Append(stdout, FinalResponse)]_vars

\* The process has exited after a shutdown while a second shutdown command
\* was queued.
C11_Witness ==
    /\ ShutdownsRouted = 1
    /\ exitCode = 0
    /\ \E m \in Queued : IsCmd(m, "shutdown")

\* C12: the process ends only after app.quit() (a shutdown command or the
\* user closing the window), and then with exit code 0.
C12_GracefulExitZero == exitCode # -1 => (quit /\ exitCode = 0)

\* The process has exited after a job whose transcribe_video call returned.
C12_Witness ==
    /\ exitCode = 0
    /\ returned # {}
    /\ ShutdownObserved

\* C13: routing an event changes the displayed context and nothing else, no
\* Result line is ever printed for an event, and a timeline_state event
\* followed by shutdown ends in an exited process.
C13_EventsNoReply ==
    /\ [](\A m \in Queued \cup Dispatched : IsEvent(m) => ResultsFor(m.id) = {})
    /\ [][(/\ commands_q # <<>>
            /\ IsEvent(Head(commands_q))
            /\ Len(dispatchLog') > Len(dispatchLog))
           => /\ UNCHANGED <<stdout, stack, quit, jobLog, completed,
                             test_requested, test_response, cancel_requested,
                             exitCode>>
              /\ ctx' # ctx]_vars
    /\ (/\ Len(dispatchLog) = 1
        /\ IsEvent(dispatchLog[1])
        /\ commands_q # <<>>
        /\ IsCmd(Head(commands_q), "shutdown"))
       ~> (exitCode = 0 /\ \A m \in Dispatched : IsEvent(m) => ResultsFor(m.id) = {})

\* A timeline_state event and then a shutdown were routed, and the process
\* has exited with its final response as only output.
C13_Witness ==
    /\ Len(dispatchLog) = 2
    /\ Route(dispatchLog[1]) = "timeline_state"
    /\ IsCmd(dispatchLog[2], "shutdown")
    /\ exitCode = 0
    /\ Len(stdout) = 1 /\ stdout[1].origin = NoMsg

\* The user closed the main window (app.quit() without a shutdown command).
UserClosed == quit /\ ~ShutdownObserved
\* No command was handled and no job or test placement took place.
NoCommandHandled ==
    /\ \A m \in Dispatched : Route(m) \in {"timeline_state", "selection", "none"}
    /\ ~test_requested
    /\ jobLog = <<>>

\* C14: when the user closes the window and no command was handled, the
\* process exits and its whole output is the one line
\* {success:false, error:"cancel"}.
C14_CloseEmitsCancel ==
    /\ []((exitCode # -1 /\ UserClosed /\ NoCommandHandled)
          => stdout = <<Result(FALSE, "none", "cancel", NoMsg, NoMsg)>>)
    /\ (UserClosed /\ NoCommandHandled) ~> (exitCode = 0)

\* The user closed the window after an event had been shown; the process
\* has exited with the cancel line.
C14_Witness ==
    /\ exitCode = 0
    /\ UserClosed
    /\ NoCommandHandled
    /\ dispatchLog # <<>>
    /\ Len(stdout) = 1 /\ stdout[1].error = "cancel"

JobsStarted == {jobLog[i] : i \in 1..Len(jobLog)}

Dequeues ==
    /\ sup_pc = "drain"
    /\ stdout_q # <<>>
    /\ stdout_q' = Tail(stdout_q)
    /\ nlines' = nlines

IsCancelResult(l) == l.json = "object" /\ ~l.success /\ l.error = "cancel"

\* C16: the step that dequeues a Result line stops the session without an
\* import when the line is a failure with error "cancel"; otherwise it calls
\* import_srt for that line, once, when the line carries an srt_path that
\* exists; otherwise it imports nothing.  No line is imported twice.
C16_ResultHandling ==
    /\ [][Dequeues =>
            LET e == Head(stdout_q)
            IN IF IsCancelResult(e.line)
               THEN /\ sup_pc' = "shutdown"
                    /\ UNCHANGED <<imports, sup_exc>>
               ELSE IF e.line.json = "object" /\ e.line.srt = "exists"
               THEN imports' = Append(imports, e.id)
               ELSE imports' = imports]_vars
    /\ [](\A i, j \in 1..Len(imports) : imports[i] = imports[j] => i = j)

\* The first line was imported, the second was a cancel Result: main has
\* returned 0 without having seen the worker exit.
C16_Witness ==
    /\ sup_pc = "done"
    /\ imports = <<1>>
    /\ nlines = 2 /\ stdout_q = <<>>
    /\ code = -1
    /\ sup_exc = "none"

\* C17 (as claimed): when main has left its finally block the worker process
\* is not running.
C17_WorkerStoppedOnReturn ==
    (sup_pc = "done" /\ spawns > 0 /\ proc_state # "failed")
        => proc_state = "exited"

\* C18: a round of the loop whose write meets a broken pipe goes on to
\* proc.poll() with no exception pending; proc.poll() then sees the exit
\* code and leaves the loop, and main comes to its end.
C18_WriteFailureSwallowed ==
    /\ [][(sup_pc = "loop" /\ PipeBroken /\ sup_pc' # sup_pc)
           => (sup_pc' = "poll" /\ sup_exc' = "none")]_vars
    /\ [][(sup_pc = "poll" /\ PipeBroken /\ sup_pc' # sup_pc)
           => (sup_pc' = "shutdown" /\ code' = returncode)]_vars
    /\ (sup_pc = "poll" /\ PipeBroken) ~> (sup_pc = "done" /\ code = returncode)

\* The second event could not be written; main has ended on the exit code
\* with no exception.
C18_Witness ==
    /\ sup_pc = "done"
    /\ sup_exc = "none"
    /\ code = 0
    /\ Len(proc_stdin) = 3
    /\ proc_stdin[1] = [line |-> "timeline_state", ok |-> TRUE]
    /\ proc_stdin[2] = [line |-> "timeline_state", ok |-> FALSE]

\* C19 (as claimed): whatever subset of the accessors fails,
\* send_timeline_state builds and sends one timeline_state event.
C19_EverySnapshotSent == c_pc # "nosend"

Chars_of(s) == {s[i] : i \in 1..Len(s)}

\* C20: the line written for a message is json.dumps' text followed by the
\* one newline, and strip + json.loads of it gives the message back.
C20_CodecRoundTrip ==
    /\ c_pc \in {"line", "decoded"} =>
         /\ c_line[Len(c_line)] = "NL"
         /\ "NL" \notin Chars_of(SubSeq(c_line, 1, Len(c_line) - 1))
         /\ "CR" \notin Chars_of(c_line)
    /\ c_pc = "decoded" => (c_out.ok /\ c_out.v = c_msg)

\* An event whose timeline name holds a newline and a quote, with marks set,
\* went through the codec.
C20_Witness ==
    /\ c_pc = "decoded"
    /\ c_host.name = [r |-> "ok", s |-> <<"NL", "QUOTE">>]
    /\ c_host.marks = "set"
    /\ c_out.v = c_msg
    /\ c_msg.items[2].v.items[1].v = JStr(<<"NL", "QUOTE">>)

\* The callback invocations in r_log that found `cancelled` set.
CancelSeen == {n \in 1..Len(r_log) : r_log[n].k = "cb" /\ r_log[n].cancelled}

RunnerEnded == r_pc \in {"returned", "raised", "reported"}

LaunchFailed == exe_path = "None" \/ proc_state = "failed"

\* C23: when no worker executable is found, or spawning it fails, the
\* supervisor reports the failure and returns 1: Popen is not called again
\* (not at all when nothing was found), the polling loop is never entered,
\* and nothing is written to the worker.
C23_LaunchFailureReturns ==
    LaunchFailed =>
        /\ sup_pc = "done"
        /\ sup_ret = 1
        /\ sup_report = IF exe_path = "None" THEN "not found" ELSE "start failed"
        /\ spawns = IF exe_path = "None" THEN 0 ELSE 1
        /\ poll_count = 0
        /\ proc_stdin = <<>>

\* Popen raised for an executable that was found.
C23_Witness ==
    /\ proc_state = "failed"
    /\ exe_path = "exe"
    /\ sup_pc = "done"

\* main has seen the worker's exit code, or is in or past its finally block.
Stopping ==
    code # -1 \/ sup_pc \in {"shutdown", "terminate", "wait", "done"}

\* C27: once the supervisor has decided to stop - proc.poll() returned an
\* exit code, or a cancel Result was dequeued - it calls import_srt no more,
\* whatever is still queued or arrives later.
C27_NoImportAfterStop == [][Stopping => imports' = imports]_vars

\* main has ended after the worker's exit while a Result with an existing
\* subtitle file was still queued.
C27_Witness ==
    /\ sup_pc = "done"
    /\ code # -1
    /\ stdout_q # <<>>
    /\ ShouldImport(Head(stdout_q).line)

\* C28 (as claimed): a dequeued line that is no Result object - blank, text
\* that is no JSON, or a JSON value that is no object - is skipped: no
\* import, and the polling loop goes on with the next line.
C28_NonResultSkipped ==
    [][(/\ sup_pc = "drain"
        /\ stdout_q # <<>>
        /\ Head(stdout_q).line.json # "object"
        /\ stdout_q' = Tail(stdout_q))
       => (sup_pc' = "drain" /\ imports' = imports /\ sup_exc' = "none")]_vars

\* C26 (as claimed): a transcribe or transcribe_range command that reached
\* the worker while transcribe_video was running is ignored: no job is ever
\* started for it and no Result line is printed for it.
C26_BusyCommandIgnored ==
    \A m \in Queued \cup Dispatched :
        (StartsJob(m) /\ m.during # NoMsg) =>
            /\ \A i \in 1..Len(jobLog) : jobLog[i] # m.id
            /\ ResultsFor(m.id) = {}

\* The callback invocations in r_log that carry a progress fraction.
Fractions == {n \in 1..Len(r_log) : r_log[n].k = "cb" /\ r_log[n].p # NoProgress}

EventBuilt ==
    /\ c_pc \in {"msg", "line", "decoded"}
    /\ c_msg.items[1].k = S_event

RangeField(n) == c_msg.items[2].v.items[n].v

\* The host answered with both marks of a track, in >= 0 and out > in.
HostReportsRange ==
    /\ c_host.marks \notin {"none", "raise"}
    /\ \E track \in {GetMarkInOut(c_host.marks).video,
                     GetMarkInOut(c_host.marks).audio} :
         /\ track.in # <<>> /\ track.out # <<>>
         /\ track.in[1] >= 0
         /\ track.out[1] > track.in[1]

\* C30: in every timeline_state event in_tc, out_tc and range_seconds are
\* all null or all non-null, and non-null only when the host reported both
\* marks with in >= 0 and out > in; range_seconds is then positive.
C30_RangeAllOrNone ==
    EventBuilt =>
        /\ \/ \A n \in 4..6 : RangeField(n) = JNull
           \/ \A n \in 4..6 : RangeField(n) # JNull
        /\ RangeField(4) # JNull =>
             /\ HostReportsRange
             /\ RangeField(6).t = "num"
             /\ RangeField(6).h > 0

\* An event with the range taken from the audio track's marks was sent and
\* decoded.
C30_Witness ==
    /\ c_pc = "decoded"
    /\ c_msg.items[1].k = S_event
    /\ c_host.marks = "audio"
    /\ c_msg.items[2].v.items[4].k = S_in_tc
    /\ c_msg.items[2].v.items[4].v # JNull
    /\ c_msg.items[2].v.items[6].k = S_range_seconds

\* C24 (as claimed): the cues write_srt has written carry the indices
\* 1, 2, 3, ... without gaps, in the order of their segments, also when
\* some segments have an empty text.
C24_CueIndicesSequential ==
    /\ \A n \in 1..Len(w_file) : w_file[n].index = n
    /\ \A m, n \in 1..Len(w_file) :
         m < n => w_file[m].segment < w_file[n].segment

\* The digits of a timestamp's fields, read back as numbers.
Num2(s, i) == 10 * DigitVal(s[i]) + DigitVal(s[i + 1])
Num3(s, i) == 100 * DigitVal(s[i]) + Num2(s, i + 1)

\* C25 (as claimed): for a time in whole milliseconds format_srt_timestamp
\* gives HH:MM:SS,mmm with minutes and seconds in 0..59 and milliseconds in
\* 0..999, the fields recompose to the time, and the part before the comma
\* is what format_duration gives.
C25_TimestampExact ==
    t_pc = "out" =>
        /\ Len(t_stamp) = 12
        /\ t_stamp[3] = ":" /\ t_stamp[6] = ":" /\ t_stamp[9] = ","
        /\ \A i \in {1, 2, 4, 5, 7, 8, 10, 11, 12} : IsDigit(t_stamp[i])
        /\ Num2(t_stamp, 4) <= 59
        /\ Num2(t_stamp, 7) <= 59
        /\ ((Num2(t_stamp, 1) * 60 + Num2(t_stamp, 4)) * 60
               + Num2(t_stamp, 7)) * 1000 + Num3(t_stamp, 10) = t_ms
        /\ SubSeq(t_stamp, 1, 8) = t_dur
====
